---- MODULE Spec2Model ----
(***************************************************************************)
(* Model of the strategy back-testing engine.                              *)
(*                                                                         *)
(*   SpecSim  : rsi_sma_strategy.py -- execute_backtest (the per-bar       *)
(*              position simulator) followed by the trade extraction of    *)
(*              RsiSmaStrategy.run_backtest.                               *)
(*   SpecMain : main.py -- the orchestrator's loop over SMA_PERIODS, the   *)
(*              process pool and the as_completed collection loop.         *)
(*                                                                         *)
(* Bars are numbered 1..n here; bar k is Python index k-1, and the date of *)
(* bar k is k (the bar index is strictly increasing).                      *)
(***************************************************************************)
EXTENDS Integers, Sequences, FiniteSets, TLC

VARIABLES
    \* ---- inputs of execute_backtest, as far as the loop has read them
    open_price, close, low,     \* price arrays, bars 1..i
    sig,                        \* entry/partial/exit signal values of bar i
    \* ---- locals of execute_backtest
    in_position, partial_is_done, entry_price, stop_loss_price,
    partial_exit_price,
    \* ---- outputs of execute_backtest, bars 1..i
    entry_flags, partial_exit_flags, exit_flags,
    entry_prices, partial_exit_prices, exit_prices,
    \* ---- run_backtest
    pc,                         \* "loop" | "returned"
    trades,                     \* Trade ID -> trade record
    \* ---- PerformanceAnalyzer
    stats,                      \* analyzer._stats
    heap,                       \* the dicts made by reads of analyzer.stats
    calls,                      \* what the caller did with the analyzer so far
    \* ---- the task as a whole (execute_backtest_thread)
    table,                      \* the rows of the strategy's dataFrame
    signals,                    \* the signal arrays given to execute_backtest
    error,                      \* the exception the task has raised, if any
    \* ---- main
    data_dict,                  \* the tickers loaded by the DataHandler
    m_pc,                       \* where main is
    sma_idx,                    \* position of the for loop in SMA_PERIODS
    futures,                    \* ticker -> state of its future
    yielded,                    \* futures as_completed has handed to the loop
    results, trades_dict,       \* the dicts of the current parameter-set
    all_results,                \* sma_period -> results
    reporter_results,           \* what Reporter(...) was constructed with
    tables,                     \* ticker -> columns of its table in data_dict
    returned_cols,              \* ticker -> columns of the trades table its
                                \* task returned
    submitted,                  \* (ticker, sma_period) -> executor.submit calls
    printed                     \* what print_summary has printed

simVars == << open_price, close, low, sig, in_position, partial_is_done,
              entry_price, stop_loss_price, partial_exit_price,
              entry_flags, partial_exit_flags, exit_flags,
              entry_prices, partial_exit_prices, exit_prices, pc, trades,
              stats >>

mainVars == << data_dict, m_pc, sma_idx, futures, yielded, results,
               trades_dict, all_results, reporter_results, tables,
               returned_cols, submitted, printed >>

objVars == << heap, calls >>

simVarsButPc == << open_price, close, low, sig, in_position, partial_is_done,
                  entry_price, stop_loss_price, partial_exit_price,
                  entry_flags, partial_exit_flags, exit_flags,
                  entry_prices, partial_exit_prices, exit_prices, trades,
                  stats >>

taskVars == << table, signals, error >>

vars == << simVars, taskVars, mainVars, objVars >>

---------------------------------------------------------------------------
\* Bounds of the model
MaxBars == 4
MaxPrice == 2
MaxTickers == 5
MaxStatTickers == 2
MaxMetric == 1
MaxCount == 2
MaxTrades == 3
MaxReturn == 2
MaxRows == 2
MaxNaNBars == 3
MaxWidePrice == 3
MaxWideRows == 3
MaxCalls == 3

Prices == 1..MaxPrice

\* the rows of a price table: a bar's low is its lowest price
Bars == {b \in [open : Prices, close : Prices, low : Prices] :
            b.low <= b.open /\ b.low <= b.close}

\* np.nan: the value of a price cell that was never written
NaN == -1

\* IEEE comparison a < b: false when either side is NaN
Lt(a, b) == a # NaN /\ b # NaN /\ a < b

---------------------------------------------------------------------------
\* execute_backtest

Signals == [entry : BOOLEAN, partial : BOOLEAN, exit : BOOLEAN]

\* one row of the three price arrays as np.full_like(close, np.nan) makes it
BlankRow == [entry_price |-> NaN, partial_exit_price |-> NaN, exit_price |-> NaN]

\* (variant: the arguments entry_price and price taken in the other order)
update_prices_swapped(row, ep, price, pep, update_partial, update_exit) ==
    [entry_price        |-> price,
     partial_exit_price |-> IF update_partial THEN pep ELSE row.partial_exit_price,
     exit_price         |-> IF update_exit THEN ep ELSE row.exit_price]

\* (variant: the partial price written whatever update_partial says)
update_prices_always(row, ep, price, pep, update_partial, update_exit) ==
    [entry_price        |-> ep,
     partial_exit_price |-> pep,
     exit_price         |-> IF update_exit THEN price ELSE row.exit_price]

\* (variant: the entry price written only together with an exit price)
update_prices_onExit(row, ep, price, pep, update_partial, update_exit) ==
    [entry_price        |-> IF update_exit THEN ep ELSE row.entry_price,
     partial_exit_price |-> IF update_partial THEN pep ELSE row.partial_exit_price,
     exit_price         |-> IF update_exit THEN price ELSE row.exit_price]

\* lines 8-13: the cells of row i after update_prices(i, ...)
update_prices(row, ep, price, pep, update_partial, update_exit) ==
    [entry_price        |-> ep,
     partial_exit_price |-> IF update_partial THEN pep ELSE row.partial_exit_price,
     exit_price         |-> IF update_exit THEN price ELSE row.exit_price]

\* (variant: a position is opened on every bar that has none)
CanEnter_unsignalled(es, inpos) == ~inpos

\* (variant: an entry signal opens a position whether or not one is open)
CanEnter_pyramid(es, inpos) == es

\* line 35: a position is opened only when none is open
CanEnter(es, inpos) == es /\ ~inpos

\* (variant: the stop of a new position is the low two bars back)
InitialStop_twoBack(i, lw) == IF i > 2 THEN lw[i - 2] ELSE lw[1]

\* (variant: the stop of a new position is the entry bar's own low)
InitialStop_sameBar(i, lw) == lw[i]

\* line 39: the stop of a new position is the previous bar's low
InitialStop(i, lw) == IF i > 1 THEN lw[i - 1] ELSE lw[i]

\* (variant: the stop left where it was at a partial exit)
BreakevenStop_keep(s) == s.stop_loss_price

\* line 63: stop_loss_price = entry_price
BreakevenStop(s) == s.entry_price

\* (variant: an exit that leaves in_position set)
ClosePosition_keep(s) == s

\* lines 46, 52, 57: in_position = False
ClosePosition(s) == [s EXCEPT !.in_position = FALSE]

\* (variant: the stop test taken as not (low >= stop), which is true for NaN)
StopHit_notGe(l, sl) == ~(l # NaN /\ sl # NaN /\ l >= sl)

\* lines 44 and 50
StopHit(l, sl) == Lt(l, sl)

\* (variant: the exit signal closes a position on its entry bar too)
EntryBarExit_signal(l, sl, xs) == StopHit(l, sl) \/ xs

\* lines 35-47: on the bar that opens a position only the stop is tested;
\* exit_signal[i] (xs) is not read
EntryBarExit(l, sl, xs) == StopHit(l, sl)

\* (variant: the exit signal is looked at before the stop)
LongBranch_exitFirst(l, sl, xs, ps, pdone) ==
    IF xs THEN "exit"
    ELSE IF StopHit(l, sl) THEN "stop"
    ELSE IF ps /\ ~pdone THEN "partial"
    ELSE "hold"

\* (variant: the partial exit is not limited to the first one)
LongBranch_repeatPartial(l, sl, xs, ps, pdone) ==
    IF StopHit(l, sl) THEN "stop"
    ELSE IF xs THEN "exit"
    ELSE IF ps THEN "partial"
    ELSE "hold"

\* lines 50-67: what an open position does on a bar
LongBranch(l, sl, xs, ps, pdone) ==
    IF StopHit(l, sl) THEN "stop"
    ELSE IF xs THEN "exit"
    ELSE IF ps /\ ~pdone THEN "partial"
    ELSE "hold"

Locals == [in_position |-> in_position, partial_is_done |-> partial_is_done,
           entry_price |-> entry_price, stop_loss_price |-> stop_loss_price,
           partial_exit_price |-> partial_exit_price]

\* The body of the for loop for bar i: the locals s before the bar, the price
\* arrays o, c, lw (bars 1..i) and the signals sg of bar i give the locals
\* after the bar and the bar's cells of the six output arrays.
LoopBody(i, o, c, lw, sg, s) ==
    IF CanEnter(sg.entry, s.in_position) THEN
        LET sl   == InitialStop(i, lw)
            row1 == update_prices(BlankRow, o[i], NaN, s.partial_exit_price,
                                  FALSE, FALSE)
            hit  == EntryBarExit(lw[i], sl, sg.exit)
            s1   == [in_position |-> TRUE, partial_is_done |-> FALSE,
                     entry_price |-> o[i], stop_loss_price |-> sl,
                     partial_exit_price |-> s.partial_exit_price]
        IN  [s |-> IF hit THEN ClosePosition(s1) ELSE s1,
             entry_flag |-> TRUE, partial_exit_flag |-> FALSE, exit_flag |-> hit,
             row |-> IF hit
                     THEN update_prices(row1, o[i], sl, s.partial_exit_price,
                                        FALSE, TRUE)
                     ELSE row1]
    ELSE IF s.in_position THEN
        LET b == LongBranch(lw[i], s.stop_loss_price, sg.exit, sg.partial,
                            s.partial_is_done)
        IN  CASE b = "stop" ->
                 [s |-> ClosePosition(s),
                  entry_flag |-> FALSE, partial_exit_flag |-> FALSE,
                  exit_flag |-> TRUE,
                  row |-> update_prices(BlankRow, s.entry_price, s.stop_loss_price,
                                        s.partial_exit_price, s.partial_is_done, TRUE)]
              [] b = "exit" ->
                 [s |-> ClosePosition(s),
                  entry_flag |-> FALSE, partial_exit_flag |-> FALSE,
                  exit_flag |-> TRUE,
                  row |-> update_prices(BlankRow, s.entry_price, c[i],
                                        s.partial_exit_price, s.partial_is_done, TRUE)]
              [] b = "partial" ->
                 [s |-> [s EXCEPT !.partial_is_done = TRUE,
                                  !.stop_loss_price = BreakevenStop(s),
                                  !.partial_exit_price = c[i]],
                  entry_flag |-> FALSE, partial_exit_flag |-> TRUE,
                  exit_flag |-> FALSE,
                  row |-> update_prices(BlankRow, s.entry_price, c[i], c[i],
                                        TRUE, FALSE)]
              [] OTHER ->
                 [s |-> s,
                  entry_flag |-> FALSE, partial_exit_flag |-> FALSE,
                  exit_flag |-> FALSE,
                  row |-> update_prices(BlankRow, s.entry_price, c[i],
                                        s.partial_exit_price, s.partial_is_done, FALSE)]
    ELSE
        [s |-> s, entry_flag |-> FALSE, partial_exit_flag |-> FALSE,
         exit_flag |-> FALSE, row |-> BlankRow]

---------------------------------------------------------------------------
\* RsiSmaStrategy.run_backtest: the trade extraction

\* the bars (ascending) whose flag is set: df.index[flags]
FlaggedBars(flags) == SelectSeq([k \in 1..Len(flags) |-> k], LAMBDA k : flags[k])

\* (variant: the last m entry dates instead of the first m)
EntryDates_last(entryBars, m) ==
    SubSeq(entryBars, Len(entryBars) - m + 1, Len(entryBars))

\* line 131: the entry dates given to the exit rows, by position
EntryDates(entryBars, m) == SubSeq(entryBars, 1, m)

\* (variant: the index left 0-based)
TradeIds_zeroBased(m) == 0..(m - 1)

\* lines 138-139: reset_index(drop=True), then index + 1
TradeIds(m) == {k + 1 : k \in 0..(m - 1)}

\* (variant: the partial leg left out of the return)
return_pct_noBlend(ep, pep, xp) == [num |-> 100 * (xp - ep), den |-> ep]

\* lines 147-151: return_pct as the exact fraction num/den
return_pct(ep, pep, xp) ==
    IF pep # NaN
    THEN [num |-> 50 * (pep - ep) + 50 * (xp - ep), den |-> ep]
    ELSE [num |-> 100 * (xp - ep), den |-> ep]

ExtractTrades(eflags, xflags, eprices, pprices, xprices) ==
    LET exitBars   == FlaggedBars(xflags)
        m          == Len(exitBars)
        entryDates == EntryDates(FlaggedBars(eflags), m)
        ids        == TradeIds(m)
        first      == IF m = 0 THEN 1 ELSE CHOOSE a \in ids : \A b \in ids : a <= b
    IN  [id \in ids |->
            LET k == id - first + 1
                x == exitBars[k]
            IN  [entry_date         |-> entryDates[k],
                 exit_date          |-> x,
                 entry_price        |-> eprices[x],
                 partial_exit_price |-> pprices[x],
                 exit_price         |-> xprices[x],
                 return_pct         |-> return_pct(eprices[x], pprices[x], xprices[x])]]

---------------------------------------------------------------------------
\* The simulator and the extraction as a state machine

\* no PerformanceAnalyzer has been constructed
NoStats == [total_trades |-> -1]

\* no exception has been raised
NoError == [raised |-> FALSE]

\* no read of analyzer.stats has been made
ObjIdle == heap = << >> /\ calls = << >>

TaskIdle == table = << >> /\ signals = << >> /\ error = NoError /\ ObjIdle

SimIdle ==
    /\ open_price = << >> /\ close = << >> /\ low = << >>
    /\ sig = [entry |-> FALSE, partial |-> FALSE, exit |-> FALSE]
    /\ in_position = FALSE
    /\ partial_is_done = FALSE
    /\ entry_price = 0
    /\ stop_loss_price = 0
    /\ partial_exit_price = 0
    /\ entry_flags = << >> /\ partial_exit_flags = << >> /\ exit_flags = << >>
    /\ entry_prices = << >> /\ partial_exit_prices = << >> /\ exit_prices = << >>
    /\ pc = "loop"
    /\ trades = << >>
    /\ stats = NoStats
    /\ TaskIdle

NoReport == "none"

\* nothing was printed: print_summary has not been called
NotPrinted == [called |-> FALSE]

MainIdle ==
    /\ data_dict = {}
    /\ m_pc = "idle"
    /\ sma_idx = 1
    /\ futures = << >>
    /\ yielded = {}
    /\ results = << >>
    /\ trades_dict = << >>
    /\ all_results = << >>
    /\ reporter_results = NoReport
    /\ tables = << >>
    /\ returned_cols = << >>
    /\ submitted = << >>
    /\ printed = NotPrinted

InitSim == SimIdle /\ MainIdle

\* one iteration of the for loop (line 33) on the next bar of the input
Bar ==
    /\ pc = "loop"
    /\ Len(close) < MaxBars
    /\ \E b \in Bars, sg \in Signals :
         LET i == Len(close) + 1
             r == LoopBody(i, Append(open_price, b.open), Append(close, b.close),
                           Append(low, b.low), sg, Locals)
         IN  /\ open_price' = Append(open_price, b.open)
             /\ close' = Append(close, b.close)
             /\ low' = Append(low, b.low)
             /\ sig' = sg
             /\ in_position' = r.s.in_position
             /\ partial_is_done' = r.s.partial_is_done
             /\ entry_price' = r.s.entry_price
             /\ stop_loss_price' = r.s.stop_loss_price
             /\ partial_exit_price' = r.s.partial_exit_price
             /\ entry_flags' = Append(entry_flags, r.entry_flag)
             /\ partial_exit_flags' = Append(partial_exit_flags, r.partial_exit_flag)
             /\ exit_flags' = Append(exit_flags, r.exit_flag)
             /\ entry_prices' = Append(entry_prices, r.row.entry_price)
             /\ partial_exit_prices' = Append(partial_exit_prices, r.row.partial_exit_price)
             /\ exit_prices' = Append(exit_prices, r.row.exit_price)
    /\ UNCHANGED << pc, trades, stats >>
    /\ UNCHANGED taskVars
    /\ UNCHANGED mainVars
    /\ UNCHANGED objVars

\* the loop has read the last bar: execute_backtest returns and run_backtest
\* builds the trade table (lines 130-153)
Extract ==
    /\ pc = "loop"
    /\ pc' = "returned"
    /\ trades' = ExtractTrades(entry_flags, exit_flags, entry_prices,
                               partial_exit_prices, exit_prices)
    /\ UNCHANGED << open_price, close, low, sig, in_position, partial_is_done,
                    entry_price, stop_loss_price, partial_exit_price,
                    entry_flags, partial_exit_flags, exit_flags,
                    entry_prices, partial_exit_prices, exit_prices, stats >>
    /\ UNCHANGED taskVars
    /\ UNCHANGED mainVars
    /\ UNCHANGED objVars

NextSim == Bar \/ Extract

SpecSim == InitSim /\ [][NextSim]_vars

\* the rows of a price table in which the low may be missing
BarsNaN ==
    Bars \cup {[open |-> o, close |-> c, low |-> NaN] : o \in Prices, c \in Prices}

\* one iteration of the for loop (line 33) on a bar whose low may be NaN
BarNaN ==
    /\ pc = "loop"
    /\ Len(close) < MaxNaNBars
    /\ \E b \in BarsNaN, sg \in Signals :
         LET i == Len(close) + 1
             r == LoopBody(i, Append(open_price, b.open), Append(close, b.close),
                           Append(low, b.low), sg, Locals)
         IN  /\ open_price' = Append(open_price, b.open)
             /\ close' = Append(close, b.close)
             /\ low' = Append(low, b.low)
             /\ sig' = sg
             /\ in_position' = r.s.in_position
             /\ partial_is_done' = r.s.partial_is_done
             /\ entry_price' = r.s.entry_price
             /\ stop_loss_price' = r.s.stop_loss_price
             /\ partial_exit_price' = r.s.partial_exit_price
             /\ entry_flags' = Append(entry_flags, r.entry_flag)
             /\ partial_exit_flags' = Append(partial_exit_flags, r.partial_exit_flag)
             /\ exit_flags' = Append(exit_flags, r.exit_flag)
             /\ entry_prices' = Append(entry_prices, r.row.entry_price)
             /\ partial_exit_prices' = Append(partial_exit_prices, r.row.partial_exit_price)
             /\ exit_prices' = Append(exit_prices, r.row.exit_price)
    /\ UNCHANGED << pc, trades, stats >>
    /\ UNCHANGED taskVars
    /\ UNCHANGED mainVars
    /\ UNCHANGED objVars

NextSimNaN == BarNaN \/ Extract

SpecSimNaN == InitSim /\ [][NextSimNaN]_vars

---------------------------------------------------------------------------
\* Statistics as exact numbers: a float is held as the fraction num/den in
\* lowest terms with den > 0; float('nan') is the fraction with den = 0

RECURSIVE GCD(_, _)
GCD(a, b) == IF b = 0 THEN a ELSE GCD(b, a % b)

Abs(n) == IF n < 0 THEN -n ELSE n

NaNStat == [num |-> 0, den |-> 0]

Zero == [num |-> 0, den |-> 1]

IsNaN(x) == x.den = 0

Norm(n, d) ==
    IF d = 0 THEN NaNStat
    ELSE LET g == GCD(Abs(n), Abs(d))
             sgn == IF d < 0 THEN -1 ELSE 1
         IN [num |-> sgn * (n \div g), den |-> sgn * (d \div g)]

OfInt(n) == [num |-> n, den |-> 1]

RAdd(a, b) ==
    IF IsNaN(a) \/ IsNaN(b) THEN NaNStat
    ELSE Norm(a.num * b.den + b.num * a.den, a.den * b.den)

RMul(a, b) ==
    IF IsNaN(a) \/ IsNaN(b) THEN NaNStat
    ELSE Norm(a.num * b.num, a.den * b.den)

\* a / b for b # 0
RDiv(a, b) ==
    IF IsNaN(a) \/ IsNaN(b) THEN NaNStat
    ELSE Norm(a.num * b.den, a.den * b.num)

---------------------------------------------------------------------------
\* performanceAnalyzer.py

\* r > 0 and r < 0 on floats: false for NaN
IsPos(r) == ~IsNaN(r) /\ r.num * r.den > 0
IsNeg(r) == ~IsNaN(r) /\ r.num * r.den < 0

\* Series.sum(): NaN entries are skipped, the empty sum is 0
RECURSIVE SeriesSum(_)
SeriesSum(rs) ==
    IF rs = << >> THEN Zero
    ELSE IF IsNaN(Head(rs)) THEN SeriesSum(Tail(rs))
    ELSE RAdd(Head(rs), SeriesSum(Tail(rs)))

\* Series.count(): the entries that are not NaN
RECURSIVE SeriesCount(_)
SeriesCount(rs) ==
    IF rs = << >> THEN 0
    ELSE (IF IsNaN(Head(rs)) THEN 0 ELSE 1) + SeriesCount(Tail(rs))

\* Series.mean(): the sum over the count of the entries that are not NaN;
\* NaN when there is none
SeriesMean(rs) == Norm(SeriesSum(rs).num, SeriesSum(rs).den * SeriesCount(rs))

\* line 31: the column return_pct of the trades table
ReturnsOf(tr) == [i \in 1..Len(tr) |-> tr[i].return_pct]

\* line 32: returns[returns > 0], line 33: returns[returns < 0]
Wins(rs) == SelectSeq(rs, IsPos)
Losses(rs) == SelectSeq(rs, IsNeg)

\* (variant: every trade that is not a loss counted as a win)
win_rate_notLoss(rs) == Norm(Len(rs) - Len(Losses(rs)), Len(rs))

\* line 42: float((returns > 0).mean()), the mean of a boolean Series
win_rate(rs) == Norm(Len(Wins(rs)), Len(rs))

\* (variant: 0 in place of NaN when there is no loss to divide by)
rr_overall_zero(rs) ==
    LET total_gain == SeriesSum(Wins(rs))
        total_loss == SeriesSum(Losses(rs))
    IN  IF total_loss.num # 0
        THEN RDiv(total_gain, [num |-> Abs(total_loss.num), den |-> total_loss.den])
        ELSE Zero

\* (variant: the sum of the losses taken with its sign)
rr_overall_signed(rs) ==
    LET total_gain == SeriesSum(Wins(rs))
        loss_sum == SeriesSum(Losses(rs))
    IN IF loss_sum # Zero THEN RDiv(total_gain, loss_sum) ELSE NaNStat

\* lines 35-38
rr_overall(rs) ==
    LET total_gain == SeriesSum(Wins(rs))
        loss_sum == SeriesSum(Losses(rs))
        total_loss == [num |-> Abs(loss_sum.num), den |-> loss_sum.den]
    IN IF total_loss # Zero THEN RDiv(total_gain, total_loss) ELSE NaNStat

\* lines 30-45
calculate_stats(tr) ==
    LET returns == ReturnsOf(tr)
    IN [total_trades |-> Len(returns),
        win_rate     |-> win_rate(returns),
        avg_rr       |-> rr_overall(returns),
        avg_return   |-> SeriesMean(returns)]

\* the values of a return_pct cell
Returns == {NaNStat} \cup {OfInt(n) : n \in (-MaxReturn)..MaxReturn}

TradeTables ==
    UNION {[1..n -> [return_pct : Returns]] : n \in 0..MaxTrades}

\* PerformanceAnalyzer(trades) for a trades table as run_backtest returns it
InitAnalyzer ==
    /\ open_price = << >> /\ close = << >> /\ low = << >>
    /\ sig = [entry |-> FALSE, partial |-> FALSE, exit |-> FALSE]
    /\ in_position = FALSE
    /\ partial_is_done = FALSE
    /\ entry_price = 0
    /\ stop_loss_price = 0
    /\ partial_exit_price = 0
    /\ entry_flags = << >> /\ partial_exit_flags = << >> /\ exit_flags = << >>
    /\ entry_prices = << >> /\ partial_exit_prices = << >> /\ exit_prices = << >>
    /\ pc = "returned"
    /\ trades \in TradeTables
    /\ stats = NoStats
    /\ TaskIdle
    /\ MainIdle

\* lines 22-23: __post_init__ calls _calculate_stats
Analyze ==
    /\ pc = "returned"
    /\ stats' = calculate_stats(trades)
    /\ pc' = "analyzed"
    /\ UNCHANGED << open_price, close, low, sig, in_position, partial_is_done,
                    entry_price, stop_loss_price, partial_exit_price,
                    entry_flags, partial_exit_flags, exit_flags,
                    entry_prices, partial_exit_prices, exit_prices, trades >>
    /\ UNCHANGED taskVars
    /\ UNCHANGED mainVars
    /\ UNCHANGED objVars

NextAnalyzer == Analyze

SpecAnalyzer == InitAnalyzer /\ [][NextAnalyzer]_vars

---------------------------------------------------------------------------
\* The stats property and a caller that changes what it was given.
\* A dict is an object: reference 0 is analyzer._stats itself (the variable
\* stats holds its content), reference n >= 1 is heap[n].

\* (variant: the property hands out analyzer._stats itself)
stats_property_alias(st, h) == [ref |-> 0, heap |-> h]

\* lines 25-28: dict(self._stats), a new dict with the same items
stats_property(st, h) == [ref |-> Len(h) + 1, heap |-> Append(h, st)]

\* the content of the dict behind reference r
Deref(st, h, r) == IF r = 0 THEN st ELSE h[r]

\* the references the caller holds: those its reads returned
HeldRefs == {calls[j].ref : j \in {x \in 1..Len(calls) : calls[x].op = "read"}}

\* lines 42-44: the keys of the stats dict that hold a float
FloatKeys == {"win_rate", "avg_rr", "avg_return"}

\* the values a caller may store under a key of a dict it was given
ChangedValues == {NaNStat, OfInt(MaxReturn + 1)}

\* d = analyzer.stats
ReadStats ==
    /\ pc = "analyzed"
    /\ Len(calls) < MaxCalls
    /\ LET r == stats_property(stats, heap)
       IN  /\ heap' = r.heap
           /\ calls' = Append(calls, [op |-> "read", ref |-> r.ref, key |-> "",
                                      value |-> Deref(stats, r.heap, r.ref)])
    /\ UNCHANGED simVars
    /\ UNCHANGED taskVars
    /\ UNCHANGED mainVars

\* d[k] = v on a dict d that a read has returned
ChangeReturned ==
    /\ pc = "analyzed"
    /\ Len(calls) < MaxCalls
    /\ \E r \in HeldRefs, k \in FloatKeys, v \in ChangedValues :
         /\ IF r = 0
            THEN /\ stats' = [stats EXCEPT ![k] = v]
                 /\ heap' = heap
            ELSE /\ heap' = [heap EXCEPT ![r][k] = v]
                 /\ stats' = stats
         /\ calls' = Append(calls, [op |-> "set", ref |-> r, key |-> k,
                                    value |-> v])
    /\ UNCHANGED << open_price, close, low, sig, in_position, partial_is_done,
                    entry_price, stop_loss_price, partial_exit_price,
                    entry_flags, partial_exit_flags, exit_flags,
                    entry_prices, partial_exit_prices, exit_prices, pc, trades >>
    /\ UNCHANGED taskVars
    /\ UNCHANGED mainVars

NextStatsCopy == Analyze \/ ReadStats \/ ChangeReturned

SpecStatsCopy == InitAnalyzer /\ [][NextStatsCopy]_vars

---------------------------------------------------------------------------
\* RsiSmaStrategy: the signal generators, and the task from the signals to
\* the stats (run_backtest followed by PerformanceAnalyzer)

\* (variant: a > b taken as not (a <= b), which is true for NaN)
Gt_notLe(a, b) == ~(a # NaN /\ b # NaN /\ a <= b)

\* IEEE comparison a > b: false when either side is NaN
Gt(a, b) == Lt(b, a)

\* (variant: the first row filled with its own value in place of NaN)
Shift1_backfill(tb, col, i) == IF i = 1 THEN tb[1][col] ELSE tb[i - 1][col]

\* Series.shift(1): the value of the row before, NaN on the first row
Shift1(tb, col, i) == IF i = 1 THEN NaN ELSE tb[i - 1][col]

\* (variant: the entry rule without the open above the previous close)
generate_entry_signals_noGap(tb) ==
    [i \in 1..Len(tb) |->
        /\ Lt(Shift1(tb, "RSI", i), 30)
        /\ Gt(Shift1(tb, "Close", i), Shift1(tb, "SMA", i))]

\* (variant: the entry rule read on the bar itself, without shift(1))
generate_entry_signals_sameBar(tb) ==
    [i \in 1..Len(tb) |->
        /\ Lt(tb[i].RSI, 30)
        /\ Gt(tb[i].Close, tb[i].SMA)
        /\ Gt(tb[i].Open, Shift1(tb, "Close", i))]

\* lines 91-98
generate_entry_signals(tb) ==
    [i \in 1..Len(tb) |->
        /\ Lt(Shift1(tb, "RSI", i), 30)
        /\ Gt(Shift1(tb, "Close", i), Shift1(tb, "SMA", i))
        /\ Gt(tb[i].Open, Shift1(tb, "Close", i))]

\* lines 100-107
generate_partial_exit_signals(tb) == [i \in 1..Len(tb) |-> Gt(tb[i].RSI, 40)]

\* lines 109-116
generate_exit_signals(tb) == [i \in 1..Len(tb) |-> Gt(tb[i].RSI, 60)]

\* lines 121-123: the three signal columns, row by row
SignalColumns(tb) ==
    [i \in 1..Len(tb) |->
        [entry   |-> generate_entry_signals(tb)[i],
         partial |-> generate_partial_exit_signals(tb)[i],
         exit    |-> generate_exit_signals(tb)[i]]]

\* the values of the indicator columns: NaN during the warm-up, else a number
\* around the thresholds of the rules
RsiValues == {NaN, 29, 30, 40, 41, 60, 61}
SmaValues == {NaN} \cup (0..MaxPrice)

Rows ==
    {[Open |-> b.open, Close |-> b.close, Low |-> b.low, RSI |-> r, SMA |-> m] :
        b \in Bars, r \in RsiValues, m \in SmaValues}

Tables == UNION {[1..n -> Rows] : n \in 0..MaxRows}

\* the strategy holds a table with its indicator columns (lines 73-88)
InitTask ==
    /\ open_price = << >> /\ close = << >> /\ low = << >>
    /\ sig = [entry |-> FALSE, partial |-> FALSE, exit |-> FALSE]
    /\ in_position = FALSE
    /\ partial_is_done = FALSE
    /\ entry_price = 0
    /\ stop_loss_price = 0
    /\ partial_exit_price = 0
    /\ entry_flags = << >> /\ partial_exit_flags = << >> /\ exit_flags = << >>
    /\ entry_prices = << >> /\ partial_exit_prices = << >> /\ exit_prices = << >>
    /\ pc = "signals"
    /\ trades = << >>
    /\ stats = NoStats
    /\ table \in Tables
    /\ signals = << >>
    /\ error = NoError
    /\ ObjIdle
    /\ MainIdle

\* lines 119-123
GenerateSignals ==
    /\ pc = "signals"
    /\ signals' = SignalColumns(table)
    /\ pc' = "simulate"
    /\ UNCHANGED << table, error >>
    /\ UNCHANGED simVarsButPc
    /\ UNCHANGED mainVars
    /\ UNCHANGED objVars

\* lines 33-68: one iteration of the loop of execute_backtest on the next row
\* of the table, with the signal values sg read for it
TaskStep(sg) ==
    /\ pc = "simulate"
    /\ Len(close) < Len(table)
    /\ LET i == Len(close) + 1
           b == table[i]
           r == LoopBody(i, Append(open_price, b.Open), Append(close, b.Close),
                         Append(low, b.Low), sg, Locals)
       IN  /\ open_price' = Append(open_price, b.Open)
           /\ close' = Append(close, b.Close)
           /\ low' = Append(low, b.Low)
           /\ sig' = sg
           /\ in_position' = r.s.in_position
           /\ partial_is_done' = r.s.partial_is_done
           /\ entry_price' = r.s.entry_price
           /\ stop_loss_price' = r.s.stop_loss_price
           /\ partial_exit_price' = r.s.partial_exit_price
           /\ entry_flags' = Append(entry_flags, r.entry_flag)
           /\ partial_exit_flags' = Append(partial_exit_flags, r.partial_exit_flag)
           /\ exit_flags' = Append(exit_flags, r.exit_flag)
           /\ entry_prices' = Append(entry_prices, r.row.entry_price)
           /\ partial_exit_prices' = Append(partial_exit_prices, r.row.partial_exit_price)
           /\ exit_prices' = Append(exit_prices, r.row.exit_price)
    /\ UNCHANGED << pc, trades, stats >>
    /\ UNCHANGED taskVars
    /\ UNCHANGED mainVars
    /\ UNCHANGED objVars

\* line 125: the loop reads the signals of the row from the signal arrays
TaskBar ==
    /\ Len(close) < Len(signals)
    /\ TaskStep(signals[Len(close) + 1])

\* lines 128-153: the loop has read every row; the trade table is built
TaskExtract ==
    /\ pc = "simulate"
    /\ Len(close) = Len(table)
    /\ pc' = "returned"
    /\ trades' = ExtractTrades(entry_flags, exit_flags, entry_prices,
                               partial_exit_prices, exit_prices)
    /\ UNCHANGED << open_price, close, low, sig, in_position, partial_is_done,
                    entry_price, stop_loss_price, partial_exit_price,
                    entry_flags, partial_exit_flags, exit_flags,
                    entry_prices, partial_exit_prices, exit_prices, stats >>
    /\ UNCHANGED taskVars
    /\ UNCHANGED mainVars
    /\ UNCHANGED objVars

\* main.py lines 8-10
NextTask == GenerateSignals \/ TaskBar \/ TaskExtract \/ Analyze

SpecTask == InitTask /\ [][NextTask]_vars

\* tables with three price levels, enough for a stop below a close below an
\* open; RSI below the entry threshold, between the partial and the exit
\* threshold, or above the exit threshold
WideBars == {b \in [open : 1..MaxWidePrice, close : 1..MaxWidePrice,
                    low : 1..MaxWidePrice] :
                b.low <= b.open /\ b.low <= b.close}

WideRsiValues == {29, 41, 61}

WideRows ==
    {[Open |-> b.open, Close |-> b.close, Low |-> b.low, RSI |-> r, SMA |-> 1] :
        b \in WideBars, r \in WideRsiValues}

WideTables == UNION {[1..n -> WideRows] : n \in 0..MaxWideRows}

InitTaskWide ==
    /\ open_price = << >> /\ close = << >> /\ low = << >>
    /\ sig = [entry |-> FALSE, partial |-> FALSE, exit |-> FALSE]
    /\ in_position = FALSE
    /\ partial_is_done = FALSE
    /\ entry_price = 0
    /\ stop_loss_price = 0
    /\ partial_exit_price = 0
    /\ entry_flags = << >> /\ partial_exit_flags = << >> /\ exit_flags = << >>
    /\ entry_prices = << >> /\ partial_exit_prices = << >> /\ exit_prices = << >>
    /\ pc = "signals"
    /\ trades = << >>
    /\ stats = NoStats
    /\ table \in WideTables
    /\ signals = << >>
    /\ error = NoError
    /\ ObjIdle
    /\ MainIdle

SpecTaskWide == InitTaskWide /\ [][NextTask]_vars

---------------------------------------------------------------------------
\* execute_backtest called with signal arrays whose length need not be that
\* of the price arrays

PriceRows == {r \in Rows : r.RSI = NaN /\ r.SMA = NaN}

InitShape ==
    /\ open_price = << >> /\ close = << >> /\ low = << >>
    /\ sig = [entry |-> FALSE, partial |-> FALSE, exit |-> FALSE]
    /\ in_position = FALSE
    /\ partial_is_done = FALSE
    /\ entry_price = 0
    /\ stop_loss_price = 0
    /\ partial_exit_price = 0
    /\ entry_flags = << >> /\ partial_exit_flags = << >> /\ exit_flags = << >>
    /\ entry_prices = << >> /\ partial_exit_prices = << >> /\ exit_prices = << >>
    /\ pc = "simulate"
    /\ trades = << >>
    /\ stats = NoStats
    /\ table \in UNION {[1..n -> PriceRows] : n \in 0..MaxRows}
    /\ signals \in UNION {[1..m -> Signals] : m \in 0..MaxRows}
    /\ error = NoError
    /\ ObjIdle
    /\ MainIdle

\* line 35 on a row past the end of the signal arrays: the loop runs over
\* range(len(close)) and nothing compares the lengths. The compiled loop has
\* no bounds check, so the read gives whatever lies behind the array
ReadPastEnd ==
    /\ Len(close) >= Len(signals)
    /\ \E sg \in Signals : TaskStep(sg)

\* the same read in a build that checks bounds (NUMBA_BOUNDSCHECK, or the
\* function run without njit): an IndexError, whose message names neither the
\* ticker nor the parameter-set
ReadRaises ==
    /\ pc = "simulate"
    /\ Len(close) < Len(table)
    /\ Len(close) >= Len(signals)
    /\ pc' = "raised"
    /\ error' = [raised |-> TRUE, type |-> "IndexError", names |-> {}]
    /\ UNCHANGED << table, signals >>
    /\ UNCHANGED simVarsButPc
    /\ UNCHANGED mainVars
    /\ UNCHANGED objVars

NextShape == TaskBar \/ ReadPastEnd \/ ReadRaises \/ TaskExtract

SpecShape == InitShape /\ [][NextShape]_vars

---------------------------------------------------------------------------
\* reporter.py

StatKeys == {"win_rate", "avg_rr", "avg_return"}

\* lines 34 and 42: stats.get(k) is None or pd.isna(stats.get(k)); a key the
\* dict does not hold reads as None
IsNa(st, k) == k \notin DOMAIN st \/ IsNaN(st[k])

\* lines 32-37: the tickers printed under the warning header
Warned(res) == {t \in DOMAIN res : \E k \in StatKeys : IsNa(res[t], k)}

\* (variant: only a missing metric excludes a ticker, a NaN one does not)
valid_results_present(res) == {t \in DOMAIN res : StatKeys \subseteq DOMAIN res[t]}

\* lines 40-43: the entries of valid_results, by their key
valid_results(res) == {t \in DOMAIN res : \A k \in StatKeys : ~IsNa(res[t], k)}

\* r.get('total_trades', 0)
GetTotalTrades(r) == IF "total_trades" \in DOMAIN r THEN r.total_trades ELSE 0

\* line 45: sum(r.get('total_trades', 0) for r in valid_results)
RECURSIVE SumTrades(_, _)
SumTrades(res, S) ==
    IF S = {} THEN 0
    ELSE LET t == CHOOSE x \in S : TRUE
         IN GetTotalTrades(res[t]) + SumTrades(res, S \ {t})

\* (variant: the metrics summed without their trade counts)
RECURSIVE WeightedSum_plain(_, _, _)
WeightedSum_plain(res, S, k) ==
    IF S = {} THEN Zero
    ELSE LET t == CHOOSE x \in S : TRUE
         IN RAdd(res[t][k], WeightedSum_plain(res, S \ {t}, k))

\* lines 47-49: sum(r[k] * r['total_trades'] for r in valid_results)
RECURSIVE WeightedSum(_, _, _)
WeightedSum(res, S, k) ==
    IF S = {} THEN Zero
    ELSE LET t == CHOOSE x \in S : TRUE
         IN RAdd(RMul(res[t][k], OfInt(res[t].total_trades)),
                 WeightedSum(res, S \ {t}, k))

\* (variant: the division made whatever total_trades is; a division by zero
\* leaves no number)
Blend_unguarded(res, S, k, total) ==
    IF total = 0 THEN NaNStat ELSE RDiv(WeightedSum(res, S, k), OfInt(total))

\* lines 47-49: <sum> / total_trades if total_trades > 0 else 0
Blend(res, S, k, total) ==
    IF total > 0 THEN RDiv(WeightedSum(res, S, k), OfInt(total)) ELSE Zero

\* lines 22-56: what print_summary prints for self.results = res
print_summary(res) ==
    IF Cardinality(DOMAIN res) = 0
    THEN [called |-> TRUE, summary |-> FALSE]
    ELSE LET valid == valid_results(res)
             total == SumTrades(res, valid)
         IN [called |-> TRUE, summary |-> TRUE,
             warnings |-> Warned(res),
             total_trades |-> total,
             win_rate |-> Blend(res, valid, "win_rate", total),
             avg_rr |-> Blend(res, valid, "avg_rr", total),
             avg_return |-> Blend(res, valid, "avg_return", total)]

---------------------------------------------------------------------------
\* main.py

\* line 6
SMA_PERIODS == << 100, 200 >>

\* line 31: ProcessPoolExecutor(max_workers=4)
max_workers == 4

TickerNames == << "T1", "T2", "T3", "T4", "T5", "T6", "T7", "T8" >>

Tickers == {TickerNames[k] : k \in 1..MaxTickers}

\* lines 7-11: what execute_backtest_thread returns for a ticker's table under
\* a parameter-set (a function of the two alone)
StatsOf(t, p)  == << "stats", t, p >>
TradesOf(t, p) == << "trades", t, p >>

sma_period == SMA_PERIODS[sma_idx]

Running == {t \in DOMAIN futures : futures[t] = "running"}

\* (variant: results = {ticker: stats} in place of results[ticker] = stats)
DictSet_rebind(d, k, v) == [x \in {k} |-> v]

\* d[k] = v on a dict held as a function
DictSet(d, k, v) == [x \in DOMAIN d \cup {k} |-> IF x = k THEN v ELSE d[x]]

\* databuilder1.py lines 37-49: the columns of the table prices_data
PriceTableColumns == {"ticker", "date", "open", "high", "low", "close",
                      "adj_close", "volume", "rsi_10", "sma_200"}

\* the tables prices_data may be: the one databuilder1.py creates, and one
\* that holds no stored indicator or adjusted price
PriceSchemas == {PriceTableColumns,
                 PriceTableColumns \ {"adj_close", "rsi_10", "sma_200"}}

\* dataHandler.py lines 31, 106: the two columns that become the index
IndexColumns == {"ticker", "date"}

\* str.capitalize() on a column name: first character upper case, the others
\* lower case
Capitalize(c) ==
    CASE c = "open"      -> "Open"
      [] c = "high"      -> "High"
      [] c = "low"       -> "Low"
      [] c = "close"     -> "Close"
      [] c = "adj_close" -> "Adj_close"
      [] c = "volume"    -> "Volume"
      [] c = "rsi_10"    -> "Rsi_10"
      [] c = "sma_200"   -> "Sma_200"

\* dataHandler.py lines 100-108: SELECT * FROM prices_data, ticker and date
\* made the index, every other column kept under its capitalized name
LoadedColumns(sch) == {Capitalize(c) : c \in sch \ IndexColumns}

\* rsi_sma_strategy.py lines 83-84, with rsi_period = 10 (main.py line 39)
col_rsi == "RSI_10"
col_sma(p) == IF p = 100 THEN "SMA_100" ELSE "SMA_200"

\* rsi_sma_strategy.py lines 87-88: the table a task works on after
\* RsiSmaStrategy.__init__ has written its two indicator columns into it
WithIndicators(cols, p) == cols \cup {col_rsi, col_sma(p)}

\* rsi_sma_strategy.py lines 119-147: the columns of the trades table
\* run_backtest returns for a table that has the columns cols
TradeColumns(cols, p) ==
    ((cols \cup {"entry_flags", "partial_exit_flags", "exit_flags",
                 "entry_price", "partial_exit_price", "exit_price",
                 "entry_date", "exit_date"})
       \ {"Open", "Close", "Low", "entry_flags", "partial_exit_flags",
          "exit_flags", col_rsi, col_sma(p)})
    \cup {"return_pct"}

\* (variant: the task runs on the orchestrator's own table object, as a
\* thread pool would have it)
ParentTable_shared(cols, p) == WithIndicators(cols, p)

\* line 31: the pool is a process pool, so the task's table is an unpickled
\* copy and the writes of lines 87-88 do not reach the orchestrator's table
ParentTable(cols, p) == cols

\* (variant: the pool starts a queued task whenever there is one)
HasFreeWorker_unbounded(n) == TRUE

\* line 31: at most max_workers worker processes
HasFreeWorker(n) == n < max_workers

InitMain ==
    /\ SimIdle
    /\ \E n \in 0..MaxTickers : data_dict = {TickerNames[k] : k \in 1..n}
    /\ m_pc = "period"
    /\ sma_idx = 1
    /\ futures = << >>
    /\ yielded = {}
    /\ results = << >>
    /\ trades_dict = << >>
    /\ all_results = << >>
    /\ reporter_results = NoReport
    /\ \E sch \in PriceSchemas :
          tables = [t \in data_dict |-> LoadedColumns(sch)]
    /\ returned_cols = << >>
    /\ submitted = << >>
    /\ printed = NotPrinted

\* (variant: the loop over as_completed left after the first future)
Exhausted_first(ys, fs) == ys # {} \/ DOMAIN fs = {}

\* line 46: as_completed(futures) ends when it has yielded every future
Exhausted(ys, fs) == ys = DOMAIN fs

\* lines 28-31: the top of an iteration of the for loop: fresh dicts and a
\* new pool, which has no task yet
BeginPeriod ==
    /\ m_pc = "period"
    /\ results' = << >>
    /\ trades_dict' = << >>
    /\ futures' = << >>
    /\ returned_cols' = << >>
    /\ yielded' = {}
    /\ m_pc' = IF data_dict = {} THEN "collect" ELSE "submit"
    /\ UNCHANGED << data_dict, sma_idx, all_results, reporter_results,
                    tables, submitted, printed >>
    /\ UNCHANGED simVars
    /\ UNCHANGED objVars
    /\ UNCHANGED taskVars

\* line 43: data_dict.items() gives the tickers in the order they were loaded
NextToSubmit == TickerNames[Cardinality(DOMAIN futures) + 1]

\* lines 32-44: one executor.submit of the list comprehension; the pool may
\* start and finish tasks already submitted before the next submit is made
Submit(t) ==
    /\ m_pc = "submit"
    /\ t \in data_dict
    /\ t = NextToSubmit
    /\ futures' = DictSet(futures, t, "pending")
    /\ submitted' =
         LET q == << t, sma_period >>
         IN DictSet(submitted, q,
                    (IF q \in DOMAIN submitted THEN submitted[q] ELSE 0) + 1)
    /\ m_pc' = IF DOMAIN futures' = data_dict THEN "collect" ELSE "submit"
    /\ UNCHANGED << data_dict, sma_idx, yielded, results, trades_dict,
                    all_results, reporter_results, tables, returned_cols,
                    printed >>
    /\ UNCHANGED simVars
    /\ UNCHANGED objVars
    /\ UNCHANGED taskVars

\* a free worker process takes a queued task
WorkerStart(t) ==
    /\ m_pc \in {"submit", "collect", "unwind"}
    /\ t \in DOMAIN futures
    /\ futures[t] = "pending"
    /\ HasFreeWorker(Cardinality(Running))
    /\ futures' = [futures EXCEPT ![t] = "running"]
    /\ UNCHANGED << data_dict, m_pc, sma_idx, yielded, results, trades_dict,
                    all_results, reporter_results, tables, returned_cols,
                    submitted, printed >>
    /\ UNCHANGED simVars
    /\ UNCHANGED objVars
    /\ UNCHANGED taskVars

\* the task returns its triple, or raises
WorkerFinish(t) ==
    /\ t \in DOMAIN futures
    /\ futures[t] = "running"
    /\ \E outcome \in {"returned", "raised"} :
         /\ futures' = [futures EXCEPT ![t] = outcome]
         /\ IF outcome = "returned"
            THEN /\ returned_cols' =
                      DictSet(returned_cols, t,
                              TradeColumns(WithIndicators(tables[t], sma_period),
                                           sma_period))
                 /\ tables' = [tables EXCEPT
                                 ![t] = ParentTable(tables[t], sma_period)]
            ELSE UNCHANGED << returned_cols, tables >>
    /\ UNCHANGED << data_dict, m_pc, sma_idx, yielded, results, trades_dict,
                    all_results, reporter_results, submitted, printed >>
    /\ UNCHANGED simVars
    /\ UNCHANGED objVars
    /\ UNCHANGED taskVars

\* lines 46-50: as_completed hands over a finished future; future.result()
\* returns the triple or re-raises the task's exception, which nothing catches
Collect(t) ==
    /\ m_pc = "collect"
    /\ t \in DOMAIN futures
    /\ t \notin yielded
    /\ futures[t] \in {"returned", "raised"}
    /\ yielded' = yielded \cup {t}
    /\ IF futures[t] = "returned"
       THEN /\ results' = DictSet(results, t, StatsOf(t, sma_period))
            /\ trades_dict' = DictSet(trades_dict, t, TradesOf(t, sma_period))
            /\ m_pc' = m_pc
       ELSE /\ m_pc' = "unwind"
            /\ UNCHANGED << results, trades_dict >>
    /\ UNCHANGED << data_dict, sma_idx, futures, all_results, reporter_results,
                    tables, returned_cols, submitted, printed >>
    /\ UNCHANGED simVars
    /\ UNCHANGED objVars
    /\ UNCHANGED taskVars

\* lines 52-55: every future was handed over; the with block ends,
\* all_results[sma_period] = results, and the for loop goes on
EndPeriod ==
    /\ m_pc = "collect"
    /\ Exhausted(yielded, futures)
    /\ all_results' = DictSet(all_results, sma_period, results)
    /\ IF sma_idx < Len(SMA_PERIODS)
       THEN sma_idx' = sma_idx + 1 /\ m_pc' = "period"
       ELSE sma_idx' = sma_idx /\ m_pc' = "report"
    /\ UNCHANGED << data_dict, futures, yielded, results, trades_dict,
                    reporter_results, tables, returned_cols, submitted,
                    printed >>
    /\ UNCHANGED simVars
    /\ UNCHANGED objVars
    /\ UNCHANGED taskVars

\* the exception leaves the with block: the executor's __exit__ is
\* shutdown(wait=True), which waits for every submitted task; the exception
\* then leaves main
Unwind ==
    /\ m_pc = "unwind"
    /\ \A t \in DOMAIN futures : futures[t] \in {"returned", "raised"}
    /\ m_pc' = "crashed"
    /\ UNCHANGED << data_dict, sma_idx, futures, yielded, results, trades_dict,
                    all_results, reporter_results, tables, returned_cols,
                    submitted, printed >>
    /\ UNCHANGED simVars
    /\ UNCHANGED objVars
    /\ UNCHANGED taskVars

\* lines 57-58: Reporter(all_results) and reporter.print_summary()
Report ==
    /\ m_pc = "report"
    /\ reporter_results' = all_results
    /\ printed' = print_summary(all_results)
    /\ m_pc' = "done"
    /\ UNCHANGED << data_dict, sma_idx, futures, yielded, results, trades_dict,
                    all_results, tables, returned_cols, submitted >>
    /\ UNCHANGED simVars
    /\ UNCHANGED objVars
    /\ UNCHANGED taskVars

NextMain ==
    \/ BeginPeriod
    \/ \E t \in Tickers : Submit(t)
    \/ \E t \in Tickers : WorkerStart(t)
    \/ \E t \in Tickers : WorkerFinish(t)
    \/ \E t \in Tickers : Collect(t)
    \/ EndPeriod
    \/ Unwind
    \/ Report

SpecMain == InitMain /\ [][NextMain]_vars

---------------------------------------------------------------------------
\* Reporter(...).print_summary() on its own

\* the values a stats dict may hold under each key
WinRates == {NaNStat} \cup {OfInt(n) : n \in 0..MaxMetric}
AvgRrs == {NaNStat} \cup {OfInt(n) : n \in 0..MaxMetric}
AvgReturns == {NaNStat} \cup {OfInt(n) : n \in (-MaxMetric)..MaxMetric}
TradeCounts == 0..MaxCount

\* a stats dict with the metric keys K (a metric outside K is missing)
StatsWith(K, w, r, a, n) ==
    [k \in K \cup {"total_trades"} |->
        IF k = "win_rate" THEN w
        ELSE IF k = "avg_rr" THEN r
        ELSE IF k = "avg_return" THEN a
        ELSE n]

StatsDicts ==
    {StatsWith(K, w, r, a, n) :
        K \in SUBSET StatKeys, w \in WinRates, r \in AvgRrs,
        a \in AvgReturns, n \in TradeCounts}

\* ticker -> stats, for one ticker or more (Reporter.__init__, line 19, reads
\* the first key of its argument)
FlatReports ==
    UNION {[{TickerNames[k] : k \in 1..n} -> StatsDicts] :
              n \in 1..MaxStatTickers}

\* the trades tables of the tickers
ReportTradeTables ==
    UNION {[1..n -> [return_pct : Returns]] : n \in 0..MaxCount}

\* PerformanceAnalyzer(trades).stats for every ticker of a ticker -> trades dict
StatsOfTrades(td) == [t \in DOMAIN td |-> calculate_stats(td[t])]

\* the parameter sets of a run
Periods == {SMA_PERIODS[k] : k \in 1..Len(SMA_PERIODS)}

\* parameter-set -> ticker -> stats, as main builds it (main.py lines 25-55):
\* every parameter set has the tickers of data_dict (none, or one here), and
\* the stats of a ticker are those PerformanceAnalyzer computes from the
\* trades its task returned under that parameter set
NestedReports ==
    UNION {{[p \in Periods |-> StatsOfTrades(td[p])] :
               td \in [Periods -> [T -> ReportTradeTables]]} :
           T \in {{}, {TickerNames[1]}}}

ReporterIdle ==
    /\ SimIdle
    /\ data_dict = {}
    /\ sma_idx = 1
    /\ futures = << >>
    /\ yielded = {}
    /\ results = << >>
    /\ trades_dict = << >>
    /\ all_results = << >>
    /\ tables = << >>
    /\ returned_cols = << >>
    /\ submitted = << >>
    /\ printed = NotPrinted
    /\ m_pc = "summary"

InitReporter == ReporterIdle /\ reporter_results \in FlatReports

InitReporterMain == ReporterIdle /\ reporter_results \in NestedReports

\* reporter.py lines 22-56
PrintSummary ==
    /\ m_pc = "summary"
    /\ printed' = print_summary(reporter_results)
    /\ m_pc' = "printed"
    /\ UNCHANGED << data_dict, sma_idx, futures, yielded, results, trades_dict,
                    all_results, reporter_results, tables, returned_cols,
                    submitted >>
    /\ UNCHANGED simVars
    /\ UNCHANGED objVars
    /\ UNCHANGED taskVars

NextReporter == PrintSummary

SpecReporter == InitReporter /\ [][NextReporter]_vars

SpecReporterMain == InitReporterMain /\ [][NextReporter]_vars

---------------------------------------------------------------------------
\* PerformanceAnalyzer and print_summary together: a Reporter constructed
\* with a ticker -> stats dict, as the signature of Reporter.__init__ declares
\* it (reporter.py line 11), whose stats are the ones PerformanceAnalyzer
\* computes from each ticker's trades. (main itself constructs its Reporter
\* with the dict keyed by parameter set; that is SpecReporterMain and Report.)

InitStatsReport ==
    /\ SimIdle
    /\ data_dict = {}
    /\ sma_idx = 1
    /\ futures = << >>
    /\ yielded = {}
    /\ results = << >>
    /\ \E n \in 1..MaxStatTickers :
          trades_dict \in [{TickerNames[k] : k \in 1..n} -> ReportTradeTables]
    /\ all_results = << >>
    /\ reporter_results = StatsOfTrades(trades_dict)
    /\ tables = << >>
    /\ returned_cols = << >>
    /\ submitted = << >>
    /\ printed = NotPrinted
    /\ m_pc = "summary"

SpecStatsReport == InitStatsReport /\ [][NextReporter]_vars

---------------------------------------------------------------------------
\* Properties of the simulator and of the trade extraction (under SpecSim)

NBars == Len(close)
CountTrue(flags) == Len(FlaggedBars(flags))
NTrades == Cardinality(DOMAIN trades)

\* the step is an iteration of the for loop, on bar NBars'
BarStep == Len(close') = Len(close) + 1

\* the open-position count after a bar, and the guard of an entry
C1_OpenCount ==
    LET d == CountTrue(entry_flags) - CountTrue(exit_flags)
    IN  d \in {0, 1} /\ (d = 1 <=> in_position)

C1_EntryOnlyWhenFlat ==
    (BarStep /\ entry_flags'[NBars'])
        => (~in_position /\ CountTrue(entry_flags) = CountTrue(exit_flags))

\* C1: after every bar the entry flags set so far exceed the exit flags by 0
\* or 1 (by 1 exactly while a position is open), and an entry flag is set on a
\* bar only if no position was open when the bar began.
C1_SinglePosition == [](C1_OpenCount) /\ [][C1_EntryOnlyWhenFlat]_vars

\* an entry signal met an open position, after an earlier position was closed
C1_Witness ==
    /\ NBars >= 3
    /\ sig.entry /\ ~entry_flags[NBars] /\ in_position
    /\ CountTrue(entry_flags) = 2 /\ CountTrue(exit_flags) = 1

\* the step of a bar that begins in a position with its low under the stop
C2_StopFirst ==
    (BarStep /\ in_position /\ Lt(low'[NBars'], stop_loss_price))
        => /\ exit_flags'[NBars']
           /\ exit_prices'[NBars'] = stop_loss_price
           /\ ~partial_exit_flags'[NBars']
           /\ ~entry_flags'[NBars']
           /\ ~in_position'

\* C2: on a bar that begins with an open position and whose low is below the
\* stop price, the position is closed at the stop price and no partial exit is
\* flagged, whatever the exit and partial-exit signals of the bar are.
C2_StopPriority == [][C2_StopFirst]_vars

\* a stop-out on a bar whose exit and partial-exit signals are both set, the
\* partial exit still being available and close differing from the stop
C2_Witness ==
    /\ NBars >= 2
    /\ exit_flags[NBars] /\ ~entry_flags[NBars]
    /\ sig.exit /\ sig.partial /\ ~partial_is_done
    /\ Lt(low[NBars], stop_loss_price)
    /\ exit_prices[NBars] = stop_loss_price
    /\ close[NBars] # stop_loss_price

\* the last bar of the position opened on bar e: its exit bar, or the end
PositionEnd(e) ==
    IF \E x \in e..NBars : exit_flags[x]
    THEN CHOOSE x \in e..NBars :
            exit_flags[x] /\ \A y \in e..(x - 1) : ~exit_flags[y]
    ELSE NBars

\* C3: from the entry bar of a position to its exit bar (or the end of the
\* series) at most one bar has partial_exit_flags set.
C3_PartialOnce ==
    \A e \in 1..NBars :
        entry_flags[e] =>
            Cardinality({j \in e..PositionEnd(e) : partial_exit_flags[j]}) <= 1

\* the partial-exit signal is set again on a later bar of a position whose
\* partial exit was already taken
C3_Witness ==
    /\ NBars >= 3
    /\ sig.partial /\ in_position /\ partial_is_done
    /\ ~partial_exit_flags[NBars] /\ ~exit_flags[NBars] /\ ~entry_flags[NBars]
    /\ \E j \in 1..(NBars - 1) :
          partial_exit_flags[j] /\ \A y \in j..NBars : ~exit_flags[y]

\* C4: every returned trade with a partial exit price has
\* return_pct = 0.5*(partial-entry)/entry*100 + 0.5*(exit-entry)/entry*100,
\* every other trade (exit-entry)/entry*100; entry 100, partial 110, exit 105
\* gives 7.5.
C4_ReturnBlend ==
    /\ pc = "returned" =>
         \A id \in DOMAIN trades :
            LET t == trades[id]
                e == t.entry_price
                r == t.return_pct
            IN  /\ r.den > 0
                /\ IF t.partial_exit_price # NaN
                   THEN 2 * r.num * e =
                          (100 * (t.partial_exit_price - e)
                             + 100 * (t.exit_price - e)) * r.den
                   ELSE r.num * e = 100 * (t.exit_price - e) * r.den
    /\ 2 * return_pct(100, 110, 105).num = 15 * return_pct(100, 110, 105).den

\* a trade with a partial exit whose two legs differ, and one without
C4_Witness ==
    /\ pc = "returned"
    /\ \E id \in DOMAIN trades :
          /\ trades[id].partial_exit_price # NaN
          /\ trades[id].partial_exit_price # trades[id].exit_price
    /\ \E id \in DOMAIN trades : trades[id].partial_exit_price = NaN

\* C5: in the returned trades every entry date is at or before its exit date,
\* every exit date is strictly before the next trade's entry date, entry
\* dates increase, and the Trade IDs are exactly 1..m.
C5_TradeOrder ==
    pc = "returned" =>
        /\ DOMAIN trades = 1..NTrades
        /\ \A id \in 1..NTrades :
              trades[id].entry_date <= trades[id].exit_date
        /\ \A id \in 1..(NTrades - 1) :
              /\ trades[id].exit_date < trades[id + 1].entry_date
              /\ trades[id].entry_date < trades[id + 1].entry_date

\* two trades on adjoining bars, one closed on its entry bar, one later
C5_Witness ==
    /\ pc = "returned"
    /\ NTrades >= 2
    /\ \E id \in DOMAIN trades : trades[id].entry_date = trades[id].exit_date
    /\ \E id \in DOMAIN trades : trades[id].entry_date < trades[id].exit_date
    /\ \E id \in 1..(NTrades - 1) :
          trades[id + 1].entry_date = trades[id].exit_date + 1

\* C6: every trade's entry date is the latest entry-flag bar at or before its
\* exit bar, no entry bar serves two trades, and the trade's entry price is
\* open at that entry bar.
C6_Pairing ==
    pc = "returned" =>
        /\ \A id \in DOMAIN trades :
              LET t == trades[id]
              IN  /\ t.entry_date \in 1..t.exit_date
                  /\ entry_flags[t.entry_date]
                  /\ \A j \in (t.entry_date + 1)..t.exit_date : ~entry_flags[j]
                  /\ t.entry_price = open_price[t.entry_date]
        /\ \A a, b \in DOMAIN trades :
              trades[a].entry_date = trades[b].entry_date => a = b

\* two trades, entered at different prices and closed on later bars
C6_Witness ==
    /\ pc = "returned"
    /\ NTrades = 2
    /\ trades[1].entry_price # trades[2].entry_price
    /\ \A id \in DOMAIN trades : trades[id].entry_date < trades[id].exit_date

LastEntryBar == CHOOSE e \in 1..NBars :
                    entry_flags[e] /\ \A y \in (e + 1)..NBars : ~entry_flags[y]

\* C7: there are as many trades as exit flags; when the series ends with a
\* position open, its entry bar is no trade's entry date and the trades are
\* those of the series cut before that entry bar.
C7_OpenDropped ==
    pc = "returned" =>
        /\ NTrades = CountTrue(exit_flags)
        /\ in_position =>
              LET n == LastEntryBar - 1
              IN  /\ \A id \in DOMAIN trades : trades[id].exit_date <= n
                  /\ NTrades = CountTrue(entry_flags) - 1
                  /\ trades = ExtractTrades(SubSeq(entry_flags, 1, n),
                                            SubSeq(exit_flags, 1, n),
                                            SubSeq(entry_prices, 1, n),
                                            SubSeq(partial_exit_prices, 1, n),
                                            SubSeq(exit_prices, 1, n))

\* the series ends with a position open after an earlier one was closed
C7_Witness ==
    /\ pc = "returned"
    /\ in_position
    /\ NTrades >= 1
    /\ CountTrue(entry_flags) = NTrades + 1

\* the step of a bar that begins flat with its entry signal set, and the
\* trade of an entry-day stop-out
C8_Entry ==
    (BarStep /\ ~in_position /\ sig'.entry) =>
        LET i    == NBars'
            stop == IF i > 1 THEN low'[i - 1] ELSE low'[i]
        IN  /\ entry_flags'[i]
            /\ entry_prices'[i] = open_price'[i]
            /\ entry_price' = open_price'[i]
            /\ stop_loss_price' = stop
            /\ ~partial_is_done'
            /\ IF Lt(low'[i], stop)
               THEN /\ i > 1
                    /\ exit_flags'[i]
                    /\ exit_prices'[i] = stop
                    /\ ~in_position'
               ELSE ~exit_flags'[i] /\ in_position'

C8_SameDayTrade ==
    pc = "returned" =>
        \A b \in 1..NBars :
            (entry_flags[b] /\ exit_flags[b]) =>
                \E id \in DOMAIN trades :
                    /\ trades[id].entry_date = b
                    /\ trades[id].exit_date = b
                    /\ trades[id].entry_price = open_price[b]
                    /\ trades[id].exit_price = low[b - 1]

\* C8: an entry signal on a bar that begins flat sets the entry flag with
\* entry price open[i] and stop low[i-1] (low[i] on the first bar); if low[i]
\* is below that stop, the bar also gets the exit flag with exit price equal to
\* the stop and the simulator is flat again, which cannot happen on the first
\* bar; the trade of such a bar has equal entry and exit dates.
C8_EntryRule == [][C8_Entry]_vars /\ [](C8_SameDayTrade)

\* a trade opened and stopped out on the same bar, at the previous bar's low
C8_Witness ==
    /\ pc = "returned"
    /\ \E id \in DOMAIN trades :
          /\ trades[id].entry_date = trades[id].exit_date
          /\ trades[id].entry_date > 1
          /\ trades[id].exit_price = low[trades[id].entry_date - 1]
          /\ trades[id].exit_price # trades[id].entry_price

\* the step of a bar that begins in a position
C9_NoEntry ==
    (BarStep /\ in_position) =>
        LET i == NBars'
            r == LoopBody(i, open_price', close', low',
                          [sig' EXCEPT !.entry = FALSE], Locals)
        IN  /\ ~entry_flags'[i]
            /\ entry_price' = entry_price
            /\ entry_prices'[i] = entry_price
            /\ (~partial_exit_flags'[i] => stop_loss_price' = stop_loss_price)
            /\ (partial_exit_flags'[i] => stop_loss_price' = entry_price)
            /\ Locals' = r.s
            /\ exit_flags'[i] = r.exit_flag
            /\ partial_exit_flags'[i] = r.partial_exit_flag
            /\ exit_prices'[i] = r.row.exit_price
            /\ partial_exit_prices'[i] = r.row.partial_exit_price

\* C9: on a bar that begins with an open position no entry flag is set and
\* the entry price stays, also when the position is closed on that bar; the
\* stop price changes only by the breakeven move of a partial exit flagged on
\* the bar; and the bar's outcome is the one the same bar gives with its entry
\* signal cleared.
C9_NoReentry == [][C9_NoEntry]_vars

\* a position opened on an earlier bar is closed on a bar whose entry signal
\* is set, and the bar opens nothing
C9_Witness ==
    /\ NBars >= 2
    /\ sig.entry
    /\ exit_flags[NBars] /\ ~entry_flags[NBars]
    /\ ~in_position

---------------------------------------------------------------------------
\* Properties of main (under SpecMain)

MainEnded == m_pc \in {"done", "crashed"}

\* the (ticker, parameter-set) pairs whose task raised
FailedPairs == {<< t, sma_period >> : t \in {x \in DOMAIN futures : futures[x] = "raised"}}

AllPairs == {<< t, SMA_PERIODS[k] >> : t \in data_dict, k \in 1..Len(SMA_PERIODS)}

InReport(rep, t, p) ==
    /\ rep # NoReport
    /\ p \in DOMAIN rep
    /\ t \in DOMAIN rep[p]

\* C10: when main has ended after some task raised, the Reporter was handed a
\* report that holds the stats of every pair whose task did not raise and
\* leaves out the pairs whose task raised.
C10_FailureIsolated ==
    (MainEnded /\ FailedPairs # {}) =>
        /\ reporter_results # NoReport
        /\ \A q \in AllPairs \ FailedPairs :
              /\ InReport(reporter_results, q[1], q[2])
              /\ reporter_results[q[2]][q[1]] = StatsOf(q[1], q[2])
        /\ \A q \in FailedPairs : ~InReport(reporter_results, q[1], q[2])

\* C11: when main has ended after some task raised, print_summary was called
\* and what it printed lists every pair whose task raised.
C11_FailuresReported ==
    (MainEnded /\ FailedPairs # {}) =>
        /\ printed.called
        /\ printed.summary
        /\ \A q \in FailedPairs : q \in printed.warnings

\* the mapping parameter-set -> ticker -> stats that the input determines
ExpectedReport ==
    [p \in {SMA_PERIODS[k] : k \in 1..Len(SMA_PERIODS)} |->
        [t \in data_dict |-> StatsOf(t, p)]]

\* C12: whatever the order in which the tasks complete and are handed over,
\* results holds exactly the tickers handed over so far, each under its own
\* key with its own stats, and the report of a finished run is the one mapping
\* the input determines.
C12_OrderIndependent ==
    /\ m_pc \in {"collect", "unwind"} =>
         /\ DOMAIN results = {t \in yielded : futures[t] = "returned"}
         /\ \A t \in DOMAIN results : results[t] = StatsOf(t, sma_period)
    /\ m_pc = "done" => reporter_results = ExpectedReport

\* a later ticker was handed over and stored while an earlier one was not
C12_Witness ==
    /\ m_pc = "collect"
    /\ sma_idx = 2
    /\ Cardinality(Running) = 2
    /\ TickerNames[3] \in DOMAIN results
    /\ TickerNames[1] \notin yielded

\* C13: once a task's exception has reached the orchestrator, no queued task
\* is started, the tasks in flight run on to their end, and the results
\* collected before the exception stay as they were.
C13_QueuedNotStarted ==
    [][m_pc = "unwind" =>
         /\ \A t \in DOMAIN futures :
               /\ futures[t] = "pending" => futures'[t] = "pending"
               /\ futures[t] = "running" =>
                     futures'[t] \in {"running", "returned", "raised"}
         /\ results' = results
         /\ all_results' = all_results]_vars

\* C14: whatever tasks ran before or run concurrently, the orchestrator's
\* tables keep the columns they were loaded with, the trades table a task
\* returns has the columns that the loaded table and the parameter-set alone
\* determine (no indicator column written by a task, of this or of another
\* parameter-set; columns stored in the database pass through), and
\* the stored stats and trades are those of the ticker and the parameter-set.
C14_TaskIsolated ==
    /\ \E sch \in PriceSchemas :
          /\ \A t \in DOMAIN tables : tables[t] = LoadedColumns(sch)
          /\ \A t \in DOMAIN returned_cols :
                returned_cols[t] =
                    (LoadedColumns(sch) \ {"Open", "Close", "Low"})
                    \cup {"entry_date", "exit_date", "entry_price",
                          "partial_exit_price", "exit_price", "return_pct"}
    /\ \A t \in DOMAIN returned_cols :
          returned_cols[t] \cap {"RSI_10", "SMA_100", "SMA_200"} = {}
    /\ m_pc # "period" =>
         \A t \in DOMAIN results :
            /\ results[t] = StatsOf(t, sma_period)
            /\ trades_dict[t] = TradesOf(t, sma_period)

\* under the second parameter-set (every ticker's task has already run under
\* the first) a task has returned while another one is running, on tables
\* loaded with the stored indicator columns of the database
C14_Witness ==
    /\ sma_idx = 2
    /\ \A t \in DOMAIN tables : "Sma_200" \in tables[t]
    /\ \E t \in DOMAIN returned_cols : "Sma_200" \in returned_cols[t]
    /\ 100 \in DOMAIN all_results
    /\ \E t \in DOMAIN returned_cols : t \in DOMAIN all_results[100]
    /\ Running # {}

\* C15: no pair is ever submitted more than once, never more than max_workers
\* tasks are executing, and when a run in which no task raised has ended every
\* pair was submitted exactly once and the report holds one stats entry for
\* each pair and no other.
C15_OncePerPair ==
    /\ Cardinality(Running) <= max_workers
    /\ \A q \in DOMAIN submitted : submitted[q] = 1
    /\ m_pc = "done" =>
         /\ DOMAIN submitted = AllPairs
         /\ DOMAIN reporter_results = {SMA_PERIODS[k] : k \in 1..Len(SMA_PERIODS)}
         /\ \A p \in DOMAIN reporter_results :
               /\ DOMAIN reporter_results[p] = data_dict
               /\ \A t \in data_dict : reporter_results[p][t] = StatsOf(t, p)

\* the pool is full while a further task of the second parameter-set waits
C15_Witness ==
    /\ sma_idx = 2
    /\ Cardinality(Running) = max_workers
    /\ \E t \in DOMAIN futures : futures[t] = "pending"
    /\ \A q \in AllPairs : q \in DOMAIN submitted

---------------------------------------------------------------------------
\* Properties of print_summary (under SpecReporter)

\* the tickers whose three metrics are all present and not NaN
ValidTickers ==
    {t \in DOMAIN reporter_results :
        /\ StatKeys \subseteq DOMAIN reporter_results[t]
        /\ \A k \in StatKeys : reporter_results[t][k] # NaNStat}

\* trades_t of the i-th ticker name if it is a valid ticker, else 0
CountAt(i) ==
    IF TickerNames[i] \in ValidTickers
    THEN reporter_results[TickerNames[i]].total_trades ELSE 0

\* metric_t * trades_t of the i-th ticker name if it is a valid ticker
TermAt(i, k) ==
    IF TickerNames[i] \in ValidTickers
    THEN RMul(reporter_results[TickerNames[i]][k], OfInt(CountAt(i)))
    ELSE Zero

RECURSIVE SumCounts(_)
SumCounts(i) == IF i = 0 THEN 0 ELSE CountAt(i) + SumCounts(i - 1)

RECURSIVE SumTerms(_, _)
SumTerms(i, k) == IF i = 0 THEN Zero ELSE RAdd(TermAt(i, k), SumTerms(i - 1, k))

\* C16: when the valid tickers have trades, each blended metric printed is
\* sum(metric_t * trades_t) / sum(trades_t) over the valid tickers, and the
\* total printed is sum(trades_t); for two valid tickers the blended metric is
\* (n1*r1 + n2*r2) / (n1 + n2).
C16_TradeWeighted ==
    (m_pc = "printed" /\ SumCounts(MaxStatTickers) > 0) =>
        /\ printed.total_trades = SumCounts(MaxStatTickers)
        /\ \A k \in StatKeys :
              printed[k] = RDiv(SumTerms(MaxStatTickers, k),
                                OfInt(SumCounts(MaxStatTickers)))
        /\ ValidTickers = {TickerNames[1], TickerNames[2]} =>
              LET s1 == reporter_results[TickerNames[1]]
                  s2 == reporter_results[TickerNames[2]]
              IN \A k \in StatKeys :
                    printed[k].num * (s1.total_trades + s2.total_trades)
                           * s1[k].den * s2[k].den
                      = printed[k].den *
                          (s1.total_trades * s1[k].num * s2[k].den
                           + s2.total_trades * s2[k].num * s1[k].den)

\* two valid tickers with different trade counts and different win rates:
\* 1 trade at win rate 1 and 2 trades at win rate 0 blend to 1/3
C16_Witness ==
    /\ m_pc = "printed"
    /\ Cardinality(ValidTickers) = 2
    /\ printed.total_trades = 3
    /\ printed.win_rate = [num |-> 1, den |-> 3]
    /\ printed.avg_return = [num |-> -1, den |-> 3]

\* the input without the tickers that have a NaN or missing metric
ValidOnly == [t \in ValidTickers |-> reporter_results[t]]

\* C18: the tickers printed under the warning are exactly those with a NaN or
\* missing win rate, risk-reward or average return; the totals count the
\* other tickers only, and are the totals of the input without the warned
\* tickers.
C18_ExcludedIffInvalid ==
    m_pc = "printed" =>
        /\ printed.warnings = DOMAIN reporter_results \ ValidTickers
        /\ printed.total_trades = SumCounts(MaxStatTickers)
        /\ \A k \in StatKeys : printed[k] # NaNStat
        /\ ValidTickers # {} =>
              LET alone == print_summary(ValidOnly)
              IN /\ alone.warnings = {}
                 /\ printed.total_trades = alone.total_trades
                 /\ \A k \in StatKeys : printed[k] = alone[k]

\* one ticker with a NaN metric and trades of its own was left out, next to a
\* valid ticker whose trades make the total
C18_Witness ==
    /\ m_pc = "printed"
    /\ printed.warnings = {TickerNames[2]}
    /\ StatKeys \subseteq DOMAIN reporter_results[TickerNames[2]]
    /\ reporter_results[TickerNames[2]].avg_rr = NaNStat
    /\ reporter_results[TickerNames[2]].total_trades = 2
    /\ printed.total_trades = 1

\* C19: when the trade counts of the valid tickers sum to zero (no ticker is
\* valid, or the valid ones have no trades) print_summary completes and
\* prints 0 for the total and for each of the three blended metrics.
C19_ZeroWhenNoTrades ==
    (m_pc = "printed" /\ SumCounts(MaxStatTickers) = 0) =>
        /\ printed.called
        /\ printed.summary
        /\ printed.total_trades = 0
        /\ \A k \in StatKeys : printed[k] = Zero

\* a valid ticker without trades (its metrics are not zero) next to a ticker
\* that has trades but is left out for a NaN metric
C19_Witness ==
    /\ m_pc = "printed"
    /\ ValidTickers = {TickerNames[1]}
    /\ reporter_results[TickerNames[1]].total_trades = 0
    /\ reporter_results[TickerNames[1]].win_rate = OfInt(1)
    /\ TickerNames[2] \in printed.warnings
    /\ reporter_results[TickerNames[2]].total_trades = 2
    /\ printed.win_rate = Zero

---------------------------------------------------------------------------
\* Properties of print_summary on the report main builds (under
\* SpecReporterMain)

\* C17: for the report parameter-set -> ticker -> stats, the summary printed
\* carries, for each parameter-set that has tickers, the total and the
\* trade-weighted blended metrics of that parameter-set's ticker stats.
C17_BlendPerParameterSet ==
    m_pc = "printed" =>
        \A p \in DOMAIN reporter_results :
            DOMAIN reporter_results[p] # {} =>
                LET expected == print_summary(reporter_results[p])
                IN /\ printed.summary
                   /\ printed.total_trades = expected.total_trades
                   /\ \A k \in StatKeys : printed[k] = expected[k]

---------------------------------------------------------------------------
\* Properties of PerformanceAnalyzer (under SpecAnalyzer)

\* C20: for a trades table without rows the win rate the analyzer reports is
\* 0.0.
C20_EmptyWinRateZero ==
    (pc = "analyzed" /\ Len(trades) = 0) => stats.win_rate = Zero

\* return_pct of trade i, a whole number in the tables of SpecAnalyzer
\* (0 stands in for a NaN cell, which no comparison and no sum counts)
PctAt(i) ==
    IF trades[i].return_pct = NaNStat THEN 0 ELSE trades[i].return_pct.num

RECURSIVE PosSum(_)
PosSum(i) ==
    IF i = 0 THEN 0
    ELSE (IF PctAt(i) > 0 THEN PctAt(i) ELSE 0) + PosSum(i - 1)

RECURSIVE NegSum(_)
NegSum(i) ==
    IF i = 0 THEN 0
    ELSE (IF PctAt(i) < 0 THEN PctAt(i) ELSE 0) + NegSum(i - 1)

RECURSIVE PosCount(_)
PosCount(i) ==
    IF i = 0 THEN 0 ELSE (IF PctAt(i) > 0 THEN 1 ELSE 0) + PosCount(i - 1)

NoNaNReturn == \A i \in 1..Len(trades) : trades[i].return_pct # NaNStat

\* C21: avg_rr is (sum of the positive return_pct) / |sum of the negative
\* return_pct| when some trade has a negative return_pct, and NaN when the
\* negative returns sum to zero (no losing trade, or no trade at all).
C21_RiskReward ==
    pc = "analyzed" =>
        LET gain == PosSum(Len(trades))
            loss == -NegSum(Len(trades))
        IN IF loss # 0
           THEN /\ stats.avg_rr.den > 0
                /\ stats.avg_rr.num * loss = stats.avg_rr.den * gain
           ELSE stats.avg_rr = NaNStat

\* wins of 2 in all against losses of 1 in all, next to a trade at 0
C21_Witness ==
    /\ pc = "analyzed"
    /\ Len(trades) = 3
    /\ PosSum(3) = 2 /\ NegSum(3) = -1
    /\ stats.avg_rr = OfInt(2)

\* C22: total_trades is the number of trades; for trades whose return_pct is
\* a number, avg_return is their arithmetic mean (NaN for no trades) and, when
\* there is a trade, win_rate is (number of trades with return_pct > 0) /
\* total_trades, within [0, 1]: a trade at exactly 0 is in the denominator and
\* is no win.
C22_CountMeanWinRate ==
    pc = "analyzed" =>
        /\ stats.total_trades = Len(trades)
        /\ Len(trades) = 0 => stats.avg_return = NaNStat
        /\ (Len(trades) > 0 /\ NoNaNReturn) =>
              /\ stats.avg_return.den > 0
              /\ stats.avg_return.num * Len(trades)
                   = stats.avg_return.den
                       * (PosSum(Len(trades)) + NegSum(Len(trades)))
        /\ Len(trades) > 0 =>
              /\ stats.win_rate.den > 0
              /\ stats.win_rate.num * Len(trades)
                   = stats.win_rate.den * PosCount(Len(trades))
              /\ 0 <= stats.win_rate.num
              /\ stats.win_rate.num <= stats.win_rate.den

\* one win, one trade at exactly 0 and one loss: win rate 1/3
C22_Witness ==
    /\ pc = "analyzed"
    /\ NoNaNReturn
    /\ Len(trades) = 3
    /\ \E i \in 1..3 : trades[i].return_pct = Zero
    /\ \E i \in 1..3 : PctAt(i) < 0
    /\ stats.win_rate = [num |-> 1, den |-> 3]
    /\ stats.total_trades = 3

---------------------------------------------------------------------------
\* Properties of the signal generators and of the task (under SpecTask)

\* C23: on every row i, entry is RSI[i-1] < 30 and Close[i-1] > SMA[i-1] and
\* Open[i] > Close[i-1], partial exit is RSI[i] > 40 and exit is RSI[i] > 60,
\* and a signal whose rule reads a NaN or the row before the first is false.
C23_SignalRules ==
    pc # "signals" =>
        /\ Len(signals) = Len(table)
        /\ \A i \in 1..Len(table) :
              /\ signals[i].entry <=>
                    /\ i > 1
                    /\ table[i - 1].RSI # NaN /\ table[i - 1].RSI < 30
                    /\ table[i - 1].SMA # NaN
                    /\ table[i - 1].Close > table[i - 1].SMA
                    /\ table[i].Open > table[i - 1].Close
              /\ signals[i].partial <=>
                    (table[i].RSI # NaN /\ table[i].RSI > 40)
              /\ signals[i].exit <=>
                    (table[i].RSI # NaN /\ table[i].RSI > 60)

\* the second row has an entry signal from the values of the first row, while
\* its own SMA is NaN and its own RSI sits at the exit threshold
C23_Witness ==
    /\ pc = "simulate"
    /\ Len(table) = 2
    /\ signals[2].entry /\ ~signals[1].entry
    /\ table[2].SMA = NaN
    /\ table[2].RSI = 60
    /\ signals[2].partial /\ ~signals[2].exit

AllUndefined == \A i \in 1..Len(table) : table[i].RSI = NaN /\ table[i].SMA = NaN

\* C24: when RSI and SMA are NaN on every row, every signal is false, no flag
\* is set, the trade table is empty, the stats have total_trades = 0 and no
\* exception is raised.
C24_NoTradesInWarmUp ==
    AllUndefined =>
        /\ error = NoError
        /\ \A i \in 1..Len(signals) :
              ~signals[i].entry /\ ~signals[i].partial /\ ~signals[i].exit
        /\ \A i \in 1..Len(entry_flags) :
              ~entry_flags[i] /\ ~partial_exit_flags[i] /\ ~exit_flags[i]
        /\ pc \in {"returned", "analyzed"} => trades = << >>
        /\ pc = "analyzed" => stats.total_trades = 0

\* the whole task has run on a table of two rows without indicator values
C24_Witness ==
    /\ pc = "analyzed"
    /\ AllUndefined
    /\ Len(table) = 2
    /\ Len(entry_flags) = 2
    /\ stats.total_trades = 0

---------------------------------------------------------------------------
\* Properties of the per-bar output of the simulator (under SpecSim)

\* bar k lies between the entry bar and the exit bar of a position (or the
\* last bar, for a position that is still open)
InPositionAt(k) ==
    \E e \in 1..k : entry_flags[e] /\ k <= PositionEnd(e)

\* the entry bar of the position bar k lies in
EntryBarOf(k) ==
    CHOOSE e \in 1..k : entry_flags[e] /\ k <= PositionEnd(e)

\* C25: exit_prices is defined on a bar iff exit_flags is set there;
\* entry_prices is defined exactly on the bars from a position's entry bar
\* through its exit bar (the last bar if it is still open) and equals the open
\* of the entry bar there; outside any position all three prices are NaN.
C25_PriceCells ==
    \A k \in 1..NBars :
        /\ exit_prices[k] # NaN <=> exit_flags[k]
        /\ entry_prices[k] # NaN <=> InPositionAt(k)
        /\ InPositionAt(k) => entry_prices[k] = open_price[EntryBarOf(k)]
        /\ ~InPositionAt(k) =>
              /\ entry_prices[k] = NaN
              /\ partial_exit_prices[k] = NaN
              /\ exit_prices[k] = NaN

\* a flat bar, then a position held over a bar and closed on the next one
C25_Witness ==
    /\ NBars = 4
    /\ ~entry_flags[1] /\ entry_prices[1] = NaN
    /\ entry_flags[2] /\ ~exit_flags[2] /\ ~exit_flags[3] /\ exit_flags[4]
    /\ entry_prices[3] = open_price[2]
    /\ entry_prices[4] = open_price[2]
    /\ open_price[3] # open_price[2]
    /\ exit_prices[3] = NaN /\ exit_prices[4] # NaN

\* C26: partial_exit_prices is defined only on bars where partial_exit_flags
\* is set.
C26_PartialCellOnlyWithFlag ==
    \A k \in 1..NBars : partial_exit_prices[k] # NaN => partial_exit_flags[k]

\* C29: a bar with a partial exit has no exit, records close[j] as its
\* partial price, and leaves the position open with the stop at the entry
\* price; a trade that had a partial exit and was then closed by the stop
\* (low below the entry price on its exit bar) has exit_price = entry_price
\* and return_pct = 0.5 * (partial_exit_price - entry_price) / entry_price * 100.
C29_PartialThenBreakeven ==
    /\ \A j \in 1..NBars :
          partial_exit_flags[j] =>
              /\ ~exit_flags[j]
              /\ partial_exit_prices[j] = close[j]
              /\ InPositionAt(j)
              /\ PositionEnd(EntryBarOf(j)) > j \/ j = NBars
    /\ (NBars > 0 /\ partial_exit_flags[NBars]) =>
          /\ in_position
          /\ partial_is_done
          /\ stop_loss_price = entry_price
          /\ partial_exit_price = close[NBars]
    /\ pc = "returned" =>
          \A id \in DOMAIN trades :
             LET t == trades[id]
             IN (t.partial_exit_price # NaN /\ low[t.exit_date] < t.entry_price)
                => /\ t.exit_price = t.entry_price
                   /\ t.return_pct.den > 0
                   /\ t.return_pct.num * t.entry_price
                        = 50 * (t.partial_exit_price - t.entry_price)
                             * t.return_pct.den

\* a trade whose partial exit was taken away from the entry price and which
\* was then closed at breakeven by a low under the entry price
C29_Witness ==
    /\ pc = "returned"
    /\ \E id \in DOMAIN trades :
          /\ trades[id].partial_exit_price # NaN
          /\ trades[id].partial_exit_price # trades[id].entry_price
          /\ low[trades[id].exit_date] < trades[id].entry_price
          /\ ~sig.exit
          /\ trades[id].exit_date = NBars
          /\ trades[id].exit_price = trades[id].entry_price

\* C30: a position opened on a bar after the first keeps the stop at the low
\* of the bar before its entry as long as it had no partial exit; on a later
\* bar without a partial exit before it whose low is below that stop the
\* position is closed at that stop, and the one trade of that position has
\* exit_price = low[i-1], no partial_exit_price and
\* return_pct = (exit_price - entry_price) / entry_price * 100.
C30_InitialStopHeld ==
    /\ (in_position /\ ~partial_is_done /\ EntryBarOf(NBars) > 1) =>
          stop_loss_price = low[EntryBarOf(NBars) - 1]
    /\ \A x \in 1..NBars :
          (/\ InPositionAt(x)
           /\ EntryBarOf(x) > 1
           /\ \A j \in EntryBarOf(x)..x : ~partial_exit_flags[j]
           /\ low[x] < low[EntryBarOf(x) - 1])
          => /\ exit_flags[x]
             /\ exit_prices[x] = low[EntryBarOf(x) - 1]
             /\ partial_exit_prices[x] = NaN
    /\ pc = "returned" =>
          \A id \in DOMAIN trades :
             LET t == trades[id]
                 e == t.entry_date
             IN (/\ e > 1
                 /\ t.partial_exit_price = NaN
                 /\ low[t.exit_date] < low[e - 1])
                => /\ t.exit_price = low[e - 1]
                   /\ t.return_pct.den > 0
                   /\ t.return_pct.num * t.entry_price
                        = 100 * (t.exit_price - t.entry_price) * t.return_pct.den
                   /\ Cardinality({i2 \in DOMAIN trades :
                                      trades[i2].entry_date = e}) = 1

\* a position opened on bar 3 under a stop that differs from the low two
\* bars back, stopped out on bar 4 at the low of bar 2 with no partial exit
C30_Witness ==
    /\ pc = "returned"
    /\ NBars = 4
    /\ \E id \in DOMAIN trades :
          /\ trades[id].entry_date = 3
          /\ trades[id].exit_date = 4
          /\ trades[id].partial_exit_price = NaN
          /\ low[4] < low[2]
          /\ low[1] # low[2]
          /\ ~sig.exit
          /\ trades[id].exit_price = low[2]

\* the bars from a trade's entry bar to its exit bar with a partial exit flag
PartialBars(t) == {j \in t.entry_date..t.exit_date : partial_exit_flags[j]}

\* C31: a returned trade has a partial_exit_price iff a partial exit is
\* flagged on a bar from its entry bar to its exit bar, and the value is then
\* the close of that bar; a trade without such a bar has none, whatever
\* earlier trades of the series had.
C31_PartialPriceOwn ==
    pc = "returned" =>
        \A id \in DOMAIN trades :
           LET t == trades[id]
           IN /\ (t.partial_exit_price # NaN) <=> (PartialBars(t) # {})
              /\ \A j \in PartialBars(t) : t.partial_exit_price = close[j]

\* two trades of one series: the first had a partial exit, the second none
C31_Witness ==
    /\ pc = "returned"
    /\ NTrades = 2
    /\ trades[1].partial_exit_price # NaN
    /\ PartialBars(trades[1]) # {}
    /\ PartialBars(trades[2]) = {}
    /\ trades[2].partial_exit_price = NaN
    /\ trades[1].exit_date < trades[2].entry_date

\* no flag is set on the bar just simulated
NoFlagOnNewBar ==
    LET i == Len(close')
    IN  ~entry_flags'[i] /\ ~partial_exit_flags'[i] /\ ~exit_flags'[i]

\* the simulator's locals are what they were before the bar
LocalsKept ==
    /\ in_position' = in_position
    /\ partial_is_done' = partial_is_done
    /\ entry_price' = entry_price
    /\ stop_loss_price' = stop_loss_price
    /\ partial_exit_price' = partial_exit_price

C32_Hold_Step ==
    BarStep =>
        LET i == Len(close')
        IN /\ (~in_position /\ ~sig'.entry) =>
                 /\ NoFlagOnNewBar
                 /\ entry_prices'[i] = NaN
                 /\ partial_exit_prices'[i] = NaN
                 /\ exit_prices'[i] = NaN
                 /\ LocalsKept
           /\ (/\ in_position
               /\ ~Lt(low'[i], stop_loss_price)
               /\ ~sig'.exit
               /\ ~(sig'.partial /\ ~partial_is_done)) =>
                 /\ NoFlagOnNewBar
                 /\ LocalsKept

\* C32: a bar simulated with no position and no entry signal sets no flag,
\* writes none of the three prices and leaves no position open; a bar simulated
\* with a position open, its low not below the stop, no exit signal and no first
\* partial exit sets no flag and leaves the position open with the same entry
\* price, stop price and partial_is_done.
C32_Hold == [][C32_Hold_Step]_vars

\* a position that had its partial exit held over a bar that carries both an
\* entry signal and a partial exit signal
C32_Witness ==
    /\ pc = "loop"
    /\ NBars >= 3
    /\ in_position
    /\ partial_is_done
    /\ sig.entry /\ sig.partial /\ ~sig.exit
    /\ ~partial_exit_flags[NBars]
    /\ ~entry_flags[NBars]
    /\ ~entry_flags[1] /\ entry_prices[1] = NaN

\* bar k is an entry bar whose low is below the previous bar's low
EntryDayStop(k) == k > 1 /\ low[k] < low[k - 1]

\* C33: an entry bar carries no partial exit flag, and carries an exit flag
\* exactly when its low is below the stop (the previous bar's low), the exit
\* price then being that stop whatever the exit and partial exit signals of
\* the bar are; on every bar partial_exit_flags excludes entry_flags and
\* exit_flags, and entry_flags and exit_flags are both set only for such an
\* entry-day stop-out.
C33_EntryBarOnlyStop ==
    /\ \A k \in 1..NBars :
          /\ partial_exit_flags[k] => (~entry_flags[k] /\ ~exit_flags[k])
          /\ entry_flags[k] =>
                /\ exit_flags[k] <=> EntryDayStop(k)
                /\ exit_flags[k] => exit_prices[k] = low[k - 1]
                /\ partial_exit_prices[k] = NaN
    /\ (NBars > 0 /\ entry_flags[NBars] /\ ~EntryDayStop(NBars)) =>
          /\ in_position
          /\ ~partial_is_done

\* a position opened on a bar that carries an exit and a partial exit signal
\* and whose close differs from the stop: it stays open
C33_Witness ==
    /\ NBars > 1
    /\ entry_flags[NBars]
    /\ sig.exit /\ sig.partial
    /\ ~EntryDayStop(NBars)
    /\ in_position
    /\ close[NBars] # low[NBars - 1]

\* the trades table of ticker t has a trade with a negative return_pct
HasLoss(t) ==
    \E i \in 1..Len(trades_dict[t]) : IsNeg(trades_dict[t][i].return_pct)

\* the tickers that pass the filter of reporter.py lines 40-43
Included == valid_results(reporter_results)

\* C34: a ticker passes the NaN filter of print_summary only if its trades
\* hold one with a negative return_pct; so a ticker with trades and no losing
\* trade is left out, every ticker that passes has total_trades >= 1, and the
\* total_trades the blend divides by is zero only when no ticker passes.
C34_IncludedHasLoss ==
    m_pc = "printed" =>
        /\ \A t \in Included : HasLoss(t)
        /\ \A t \in DOMAIN trades_dict :
              (Len(trades_dict[t]) > 0 /\ ~HasLoss(t)) =>
                  (t \notin Included /\ t \in printed.warnings)
        /\ \A t \in Included : reporter_results[t].total_trades >= 1
        /\ printed.total_trades = SumTrades(reporter_results, Included)
        /\ printed.total_trades = 0 <=> Included = {}

\* two tickers with trades: one with winning trades only, which is left out,
\* and one with a losing trade, which alone makes the summary
C34_Witness ==
    /\ m_pc = "printed"
    /\ DOMAIN trades_dict = {TickerNames[1], TickerNames[2]}
    /\ \A i \in 1..Len(trades_dict[TickerNames[1]]) :
          IsPos(trades_dict[TickerNames[1]][i].return_pct)
    /\ Len(trades_dict[TickerNames[1]]) = 2
    /\ Included = {TickerNames[2]}
    /\ printed.total_trades = Len(trades_dict[TickerNames[2]])

\* the stats of every ticker were merged under parameter set p
Merged(p) ==
    /\ p \in DOMAIN all_results
    /\ DOMAIN all_results[p] = data_dict
    /\ \A t \in data_dict : all_results[p][t] = StatsOf(t, p)

\* C35: a task of a parameter set is submitted only when the stats of every
\* ticker are merged for each earlier parameter set, and then no task of an
\* earlier set is still queued or running; the Reporter is called only when
\* they are merged for every parameter set.
C35_PeriodsInOrder ==
    /\ \A k \in 1..Len(SMA_PERIODS) :
          (\E t \in data_dict : << t, SMA_PERIODS[k] >> \in DOMAIN submitted)
          => \A j \in 1..(k - 1) : Merged(SMA_PERIODS[j])
    /\ \A t \in DOMAIN futures :
          futures[t] \in {"pending", "running"} =>
              /\ << t, sma_period >> \in DOMAIN submitted
              /\ sma_period \notin DOMAIN all_results
    /\ (printed.called \/ reporter_results # NoReport) =>
          \A k \in 1..Len(SMA_PERIODS) : Merged(SMA_PERIODS[k])

\* main ran to the Reporter with more tickers than worker processes
C35_Witness ==
    /\ m_pc = "done"
    /\ printed.called
    /\ Cardinality(data_dict) > max_workers
    /\ \A k \in 1..Len(SMA_PERIODS) : Merged(SMA_PERIODS[k])
    /\ \A q \in AllPairs : q \in DOMAIN submitted

\* C36: the entry signal the generator gives for the first row is false, so
\* the simulation run on the generated signals sets no entry flag on the first
\* bar, and the stop of every position it opens is the low of the bar before
\* the entry bar, never the entry bar's own low.
C36_NoFirstBarEntry ==
    /\ (pc # "signals" /\ Len(signals) > 0) => ~signals[1].entry
    /\ NBars > 0 => ~entry_flags[1]
    /\ \A k \in 1..NBars :
          entry_flags[k] =>
              /\ k > 1
              /\ exit_flags[k] => exit_prices[k] = low[k - 1]
    /\ (in_position /\ ~partial_is_done) =>
          stop_loss_price = low[EntryBarOf(NBars) - 1]

\* a table whose first row meets the RSI, SMA and open conditions on its own
\* values, run to a position opened on the second bar with a stop that is not
\* the second bar's low
C36_Witness ==
    /\ Len(table) = 2
    /\ table[1].RSI # NaN /\ table[1].RSI < 30
    /\ table[1].SMA # NaN /\ table[1].Close > table[1].SMA
    /\ table[1].Open > table[1].Close
    /\ NBars = 2
    /\ ~entry_flags[1]
    /\ entry_flags[2]
    /\ in_position
    /\ stop_loss_price = low[1]
    /\ low[1] # low[2]

\* C37: in a simulation on generated signals over bars with positive prices
\* and low <= close, the entry price written on every entry bar is above the
\* low of the bar before (the initial stop); the stop of an open position is
\* that low until the partial exit and the entry price after it, so it never
\* goes down; a trade without a partial exit whose exit bar has a low below its
\* initial stop has a negative return_pct.
C37_EntryAboveStop ==
    /\ \A k \in 1..NBars :
          entry_flags[k] => (k > 1 /\ entry_prices[k] > low[k - 1])
    /\ in_position =>
          LET e == EntryBarOf(NBars)
          IN /\ entry_price > low[e - 1]
             /\ stop_loss_price = IF partial_is_done THEN entry_price
                                                     ELSE low[e - 1]
             /\ stop_loss_price >= low[e - 1]
    /\ pc \in {"returned", "analyzed"} =>
          \A id \in DOMAIN trades :
             LET t == trades[id]
             IN (/\ t.partial_exit_price = NaN
                 /\ low[t.exit_date] < low[t.entry_date - 1])
                => /\ t.exit_price = low[t.entry_date - 1]
                   /\ t.return_pct.den > 0
                   /\ t.return_pct.num < 0

\* a position opened on the second bar and held over it, closed on the third
\* bar by a low below the first bar's low, at a loss
C37_Witness ==
    /\ pc = "returned"
    /\ NBars = 3
    /\ NTrades = 1
    /\ trades[1].entry_date = 2
    /\ trades[1].exit_date = 3
    /\ trades[1].partial_exit_price = NaN
    /\ low[3] < low[1]
    /\ ~signals[3].exit
    /\ trades[1].return_pct.num < 0

\* C38: every read of analyzer.stats returns the stats as they were computed
\* from the trades, whatever the caller stored before in the dicts that
\* earlier reads returned; analyzer._stats keeps its content, and every read
\* returns a dict of its own.
C38_StatsIsCopy ==
    /\ pc = "analyzed" => stats = calculate_stats(trades)
    /\ \A j \in 1..Len(calls) :
          calls[j].op = "read" =>
              /\ calls[j].value = calculate_stats(trades)
              /\ calls[j].ref # 0
              /\ \A i \in 1..(j - 1) :
                    calls[i].op = "read" => calls[i].ref # calls[j].ref

\* a read, a change of the dict it returned, and a later read that returned
\* the stats without the change
C38_Witness ==
    /\ Len(calls) = 3
    /\ calls[1].op = "read"
    /\ calls[2].op = "set" /\ calls[2].ref = calls[1].ref
    /\ calls[3].op = "read"
    /\ Deref(stats, heap, calls[1].ref) # calculate_stats(trades)
    /\ Deref(stats, heap, calls[1].ref)[calls[2].key] = calls[2].value
    /\ calls[3].value = calculate_stats(trades)
    /\ Len(trades) > 0

---------------------------------------------------------------------------
\* Properties of the simulator on prices that may be NaN (under SpecSimNaN)

\* C27: on a bar whose low is NaN, or whose stop test reads a NaN stop price
\* (that of the open position, or that of the position opened on the bar),
\* there is no stop-out: the bar has an exit only for an open position's exit
\* signal, at the close.
C27_NoStopOnNaN_Step ==
    BarStep =>
        LET i == Len(close')
        IN  (\/ low'[i] = NaN
             \/ in_position /\ stop_loss_price = NaN
             \/ ~in_position /\ entry_flags'[i] /\ stop_loss_price' = NaN)
            => /\ exit_flags'[i] =>
                     /\ in_position
                     /\ sig'.exit
                     /\ exit_prices'[i] = close'[i]
               /\ ~exit_flags'[i] => in_position' = (in_position \/ entry_flags'[i])

C27_NoStopOnNaN == [][C27_NoStopOnNaN_Step]_vars

\* a position opened after a bar without a low has a NaN stop and is still
\* open after a bar with a low
C27_Witness ==
    /\ NBars = 3
    /\ low[1] = NaN
    /\ entry_flags[2]
    /\ low[2] # NaN /\ low[3] # NaN
    /\ stop_loss_price = NaN
    /\ in_position
    /\ ~exit_flags[3]

---------------------------------------------------------------------------
\* Properties of the simulator on arrays of different lengths (under
\* SpecShape)

\* C28: when the signal arrays and the price arrays differ in length, no flag
\* and no trade is produced, the call does not return, and the error raised
\* names the ticker and the parameter-set.
C28_MismatchRejected ==
    Len(signals) # Len(table) =>
        /\ entry_flags = << >>
        /\ trades = << >>
        /\ pc # "returned"
        /\ error.raised => {"ticker", "params"} \subseteq error.names

====
